---- MODULE Spec2Model ----
(***************************************************************************)
(* Usage-aggregation core of the AI usage monitor: the tray monitor        *)
(* (plasmacodexbar_monitor.py: ClaudeOAuthFetcher, CodexOAuthFetcher,      *)
(* AIUsageMonitorApp.refresh_stats) and the applet backend (backend.py:    *)
(* ClaudeCollector, CodexCollector, main).  One poll cycle visits the      *)
(* providers claude, codex in that order; each provider's collect is a     *)
(* sequence of steps (credential load, refresh, usage fetch, response      *)
(* normalisation and pace, ledger scan) ending in the assignment of the    *)
(* snapshot.  Time is in seconds since the epoch.  Floating-point values   *)
(* are modelled as exact rationals (a pace is a pair <<num, den>>).        *)
(* AppSpec adds the GTK main loop of AIUsageMonitorApp (timer, tray menu,  *)
(* window, quit) around the poll cycle; ConfigSpec varies config.toml for   *)
(* the resolution of the Codex usage URL.                                  *)
(* Left out: the per-model quotas, the extra-usage and credits blocks, the *)
(* message and session counts, the settings dialog and the themes.         *)
(***************************************************************************)
EXTENDS Integers, Sequences, FiniteSets, TLC

VARIABLES
    impl,        \* "monitor" (plasmacodexbar_monitor.py) or "backend" (backend.py)
    now,         \* current time, seconds
    claudeFile,  \* ~/.claude/.credentials.json
    codexFile,   \* ~/.codex/auth.json
    ledger,      \* the local statistics and session logs
    providers,   \* self.providers / the providers list of main()
    pc,          \* position inside the poll cycle
    cur,         \* the provider whose collect is running
    stats,       \* the snapshot under construction (stats / result)
    creds,       \* the credentials collect holds
    net,         \* per provider, the network calls of this cycle, in order
    produced,    \* the providers whose snapshot was stored in this cycle
    outcome,     \* how the poll cycle ended
    config,      \* ~/.codex/config.toml
    app          \* the tray application: its timer, window, menu and main loop

vars == <<impl, now, claudeFile, codexFile, ledger, providers, pc, cur, stats,
          creds, net, produced, outcome, config, app>>

-----------------------------------------------------------------------------
(* Bounds and program constants *)

Day == 86400
SevenDays == 7 * Day
EightDays == 8 * Day
ThirtyDays == 30
T0 == 10 * Day

-----------------------------------------------------------------------------
(* JSON values as Python sees them *)

JAbsent == [t |-> "absent"]
JNull == [t |-> "null"]
Num(n) == [t |-> "num", v |-> n]
Str(s) == [t |-> "str", v |-> s]
\* an ISO-8601 timestamp string: wall-clock seconds, and the UTC offset when
\* the string carries one (aware)
Iso(wall, aware, off) == [t |-> "str", v |-> "iso", wall |-> wall, aware |-> aware, off |-> off]
JList(n) == [t |-> "list", n |-> n]
Obj(f) == [t |-> "obj", f |-> f]
EmptyObj == [t |-> "obj", f |-> <<>>]

\* bool(x)
Truthy(j) ==
    CASE j.t = "null" -> FALSE
      [] j.t = "absent" -> FALSE
      [] j.t = "num" -> j.v # 0
      [] j.t = "str" -> j.v # ""
      [] j.t = "list" -> j.n > 0
      [] j.t = "obj" -> \E k \in DOMAIN j.f : j.f[k].t # "absent"
      [] OTHER -> TRUE

IsObj(j) == j.t = "obj"
IsNum(j) == j.t = "num"
IsStr(j) == j.t = "str"

\* an object is a record of its keys; a key the object lacks may also be
\* written as a field holding JAbsent
HasKey(d, k) == k \in DOMAIN d.f /\ d.f[k].t # "absent"

\* d.get(k, default) on a dict d
Get(d, k, default) == IF HasKey(d, k) THEN d.f[k] ELSE default

\* j == s for a string literal s
StrEq(j, s) == j.t = "str" /\ j.v = s

\* s.strip(): " " stands for a string of white space only
Strip(v) == IF v = " " THEN "" ELSE v

-----------------------------------------------------------------------------
(* datetimes *)

NoTime == [t |-> "none"]
\* a datetime: wall-clock seconds, tz-aware or naive, UTC offset of its tzinfo
Time(wall, aware, off) == [t |-> "time", wall |-> wall, aware |-> aware, off |-> off]
\* the instant an aware datetime denotes
Instant(d) == d.wall - d.off

\* datetime.fromisoformat(s.replace('Z', '+00:00')): a datetime, or ValueError /
\* AttributeError (NoTime here) for a value that is not an ISO string
FromIso(j) ==
    IF IsStr(j) /\ j.v = "iso" THEN Time(j.wall, j.aware, j.off) ELSE NoTime

-----------------------------------------------------------------------------
(* Snapshots *)

Providers == {"claude", "codex"}

NoSnapshot == [t |-> "nosnapshot"]

\* ProviderStats(provider_id=...) / the result dict of the backend collectors
ProviderStats(pid) ==
    [ t |-> "snapshot",
      provider_id |-> pid,
      full |-> TRUE,
      is_connected |-> FALSE,
      error_message |-> "",
      plan_name |-> "Unknown",
      session_used_pct |-> Num(0),
      session_reset_time |-> NoTime,
      weekly_used_pct |-> Num(0),
      weekly_reset_time |-> NoTime,
      pace_percentage |-> <<0, 1>>,
      pace_status |-> "On track",
      cost_today |-> 0,
      cost_today_tokens |-> 0,
      cost_30_days |-> 0,
      cost_30_days_tokens |-> 0 ]

\* what a step of collect hands on: where collect goes next and the snapshot
Step(next, s) == [next |-> next, stats |-> s]

-----------------------------------------------------------------------------
(* Pace *)

\* pace = used - (now - (reset - window)) / window * 100, as the rational
\* <<used * window - elapsed * 100, window>>
PaceDelta(used, reset, window, t) ==
    <<used * window - (t - (Instant(reset) - window)) * 100, window>>

\* the branch of "if pace < 0 ... elif pace > 0 ... else"
PaceStatus(p) ==
    LET neg == (p[1] < 0 /\ p[2] > 0) \/ (p[1] > 0 /\ p[2] < 0)
        pos == (p[1] > 0 /\ p[2] > 0) \/ (p[1] < 0 /\ p[2] < 0)
    IN  IF neg THEN "Behind"
        ELSE IF pos THEN "Ahead"
        ELSE "On track"

-----------------------------------------------------------------------------
(* HTTP *)

\* what urlopen and json.loads make of one request
HttpOk(body) == [kind |-> "ok", body |-> body]         \* 200, body parses
HttpStatus == [kind |-> "status"]                       \* 2xx other than 200
HttpError(code) == [kind |-> "httpError", code |-> code] \* urllib HTTPError
NetError == [kind |-> "netError"]                       \* URLError, timeout
BadJson == [kind |-> "badJson"]                         \* 200, body is not JSON

\* _fetch_usage_api of both fetchers: the decoded body, or None
FetchUsageApi(resp) == IF resp.kind = "ok" THEN resp.body ELSE JNull

-----------------------------------------------------------------------------
(* First provider: credentials *)

ClaudeMissing == [kind |-> "missing"]
ClaudeUnreadable == [kind |-> "unreadable"]
ClaudeJson(oauth) == [kind |-> "json", oauth |-> oauth]

\* ClaudeOAuthFetcher._load_credentials: None, or data.get("claudeAiOauth", {})
ClaudeOAuthFetcher_load_credentials(file) ==
    IF file.kind = "json"
    THEN IF file.oauth.t = "absent" THEN EmptyObj ELSE file.oauth
    ELSE JNull

\* the expiry check with its comparison turned round
TokenExpiredReversed(expires_at, t) ==
    Truthy(expires_at) /\ expires_at.v > t * 1000

\* "expires_at and datetime.fromtimestamp(expires_at / 1000) < datetime.now()"
TokenExpired(expires_at, t) ==
    Truthy(expires_at) /\ expires_at.v < t * 1000

\* sub_type.title() and the plan branches
PlanName(sub_type, rate_tier) ==
    CASE rate_tier = "max" \/ sub_type = "max" -> "Max"
      [] sub_type = "pro" -> "Pro"
      [] sub_type = "team" -> "Team"
      [] sub_type = "free" -> "Free"
      [] OTHER -> "Other"

\* collect from the access token to the plan name, the same in both programs
\* but for the wording of the message
ClaudeCheckCreds(s, c, t, noTokenMsg) ==
    LET access_token == Get(c, "accessToken", JNull)
        expires_at == Get(c, "expiresAt", Num(0))
        sub_type == Get(c, "subscriptionType", Str("free"))
        rate_tier == Get(c, "rateLimitTier", Str(""))
    IN  IF ~Truthy(access_token)
        THEN Step("return", [s EXCEPT !.error_message = noTokenMsg])
        ELSE IF Truthy(expires_at) /\ ~IsNum(expires_at)
        THEN Step("raise", s)                \* str / 1000: TypeError
        ELSE IF TokenExpired(expires_at, t)
        THEN Step("return", [s EXCEPT !.error_message = "Token expired"])
        ELSE IF ~IsStr(rate_tier) \/ ~IsStr(sub_type)
        THEN Step("raise", s)                \* None.lower(): AttributeError
        ELSE Step("fetch", [s EXCEPT !.plan_name = PlanName(sub_type.v, rate_tier.v)])

\* ClaudeOAuthFetcher.collect up to the usage request
ClaudeOAuthFetcher_collect_creds(s, file, t) ==
    LET c == ClaudeOAuthFetcher_load_credentials(file)
    IN  IF ~Truthy(c)
        THEN Step("return", [s EXCEPT !.error_message = "Not logged in"])
        ELSE IF ~IsObj(c)
        THEN Step("raise", s)                \* str.get: AttributeError
        ELSE ClaudeCheckCreds(s, c, t, "No access token found")

\* ClaudeCollector.collect up to the usage request
ClaudeCollector_collect_creds(s, file, t) ==
    IF file.kind = "missing"
    THEN Step("return", [s EXCEPT !.error_message = "Not logged in"])
    ELSE IF file.kind = "unreadable"
    THEN Step("return", [s EXCEPT !.error_message = "Failed to read credentials"])
    ELSE LET c == IF file.oauth.t = "absent" THEN EmptyObj ELSE file.oauth
         IN  IF ~IsObj(c)
             THEN Step("raise", s)           \* None.get: AttributeError
             ELSE ClaudeCheckCreds(s, c, t, "No access token")

-----------------------------------------------------------------------------
(* First provider: normalising the usage response *)

\* one window of the response as the monitor reads it: the percentage and the
\* parsed reset time, given the values the snapshot holds so far
MonitorClaudeWindow(w, pct0, reset0) ==
    IF ~Truthy(w)
    THEN [raised |-> FALSE, pct |-> pct0, reset |-> reset0]
    ELSE IF ~IsObj(w)
    THEN [raised |-> TRUE, pct |-> pct0, reset |-> reset0]
    ELSE LET resets_at == Get(w, "resets_at", JNull)
         IN  [raised |-> FALSE,
              pct |-> Get(w, "utilization", Num(0)),
              reset |-> IF Truthy(resets_at) THEN FromIso(resets_at) ELSE reset0]

\* "Calculate pace" of ClaudeOAuthFetcher.collect
MonitorClaudePace(s, t) ==
    IF s.weekly_reset_time.t = "none"
    THEN Step("scan", s)
    ELSE IF ~s.weekly_reset_time.aware
    THEN Step("raise", s)        \* aware - naive datetime: TypeError
    ELSE IF ~IsNum(s.weekly_used_pct)
    THEN Step("raise", s)        \* None - float: TypeError
    ELSE LET p == PaceDelta(s.weekly_used_pct.v, s.weekly_reset_time, SevenDays, t)
         IN  Step("scan", [s EXCEPT !.pace_percentage = p,
                                    !.pace_status = PaceStatus(p)])

\* ClaudeOAuthFetcher.collect from the decoded response to the pace
ClaudeOAuthFetcher_collect_usage(s, usage_data, t) ==
    IF ~Truthy(usage_data)
    THEN Step("return", [s EXCEPT !.error_message = "Failed to fetch usage data",
                                  !.is_connected = TRUE])
    ELSE LET s1 == [s EXCEPT !.is_connected = TRUE]
         IN  IF ~IsObj(usage_data)
             THEN Step("raise", s1)          \* list.get: AttributeError
             ELSE LET five == MonitorClaudeWindow(Get(usage_data, "five_hour", EmptyObj),
                                                  s1.session_used_pct, s1.session_reset_time)
                      seven == MonitorClaudeWindow(Get(usage_data, "seven_day", EmptyObj),
                                                   s1.weekly_used_pct, s1.weekly_reset_time)
                  IN  IF five.raised \/ seven.raised
                      THEN Step("raise", s1)
                      ELSE MonitorClaudePace(
                               [s1 EXCEPT !.session_used_pct = five.pct,
                                          !.session_reset_time = five.reset,
                                          !.weekly_used_pct = seven.pct,
                                          !.weekly_reset_time = seven.reset], t)

\* one window of the response as the backend reads it: the reset time is kept
\* as the raw value of the response
BackendClaudeWindow(w, pct0, reset0) ==
    IF ~Truthy(w)
    THEN [raised |-> FALSE, pct |-> pct0, reset |-> reset0]
    ELSE IF ~IsObj(w)
    THEN [raised |-> TRUE, pct |-> pct0, reset |-> reset0]
    ELSE LET resets_at == Get(w, "resets_at", JNull)
         IN  [raised |-> FALSE,
              pct |-> Get(w, "utilization", Num(0)),
              reset |-> IF Truthy(resets_at) THEN resets_at ELSE reset0]

\* a pace block whose errors reach the handler of the usage request
BackendClaudePaceReported(s, t) ==
    LET reset == FromIso(s.weekly_reset_time)
    IN  IF s.weekly_reset_time.t = "none"
        THEN s
        ELSE IF reset.t = "none" \/ ~reset.aware \/ ~IsNum(s.weekly_used_pct)
        THEN [s EXCEPT !.error_message = "Failed to fetch"]
        ELSE [s EXCEPT !.pace_status =
                 PaceStatus(PaceDelta(s.weekly_used_pct.v, reset, SevenDays, t))]

\* "Calculate pace" of ClaudeCollector.collect: every error inside is swallowed
BackendClaudePace(s, t) ==
    LET reset == FromIso(s.weekly_reset_time)
    IN  IF s.weekly_reset_time.t = "none" \/ reset.t = "none"
        THEN s
        ELSE IF ~reset.aware \/ ~IsNum(s.weekly_used_pct)
        THEN s
        ELSE [s EXCEPT !.pace_status =
                 PaceStatus(PaceDelta(s.weekly_used_pct.v, reset, SevenDays, t))]

\* the try block of ClaudeCollector.collect with its two handlers
ClaudeCollector_collect_usage(s, resp, t) ==
    CASE resp.kind = "httpError" ->
            Step("scan", [s EXCEPT !.error_message = "API error", !.is_connected = TRUE])
      [] resp.kind \in {"netError", "badJson"} ->
            Step("scan", [s EXCEPT !.error_message = "Failed to fetch"])
      [] resp.kind = "status" -> Step("scan", s)
      [] OTHER ->
            LET data == resp.body
                s1 == [s EXCEPT !.is_connected = TRUE]
                failed == [s1 EXCEPT !.error_message = "Failed to fetch"]
            IN  IF ~IsObj(data)
                THEN Step("scan", failed)    \* list.get: caught by except Exception
                ELSE LET five == BackendClaudeWindow(Get(data, "five_hour", EmptyObj),
                                                     s1.session_used_pct, s1.session_reset_time)
                         s2 == [s1 EXCEPT !.session_used_pct = five.pct,
                                          !.session_reset_time = five.reset]
                         seven == BackendClaudeWindow(Get(data, "seven_day", EmptyObj),
                                                      s2.weekly_used_pct, s2.weekly_reset_time)
                         s3 == [s2 EXCEPT !.weekly_used_pct = seven.pct,
                                          !.weekly_reset_time = seven.reset]
                     IN  IF five.raised
                         THEN Step("scan", failed)
                         ELSE IF seven.raised
                         THEN Step("scan", [s2 EXCEPT !.error_message = "Failed to fetch"])
                         ELSE Step("scan", BackendClaudePace(s3, t))

-----------------------------------------------------------------------------
(* Local ledger.  A calendar day is a day number; costs are in units of    *)
(* 10^-8 dollars, so that a rate per million tokens is the integer         *)
(* rate * 100.                                                             *)

\* datetime.now().date()
Today(t) == t \div Day

BadLine == [t |-> "badjson"]

\* a price table whose default row is the most expensive model's
PricingOpusDefault(model_id) ==
    CASE model_id = "claude-sonnet-4-5-20250929" ->
            [input |-> 300, output |-> 1500, cache_read |-> 30, cache_write |-> 375]
      [] OTHER ->
            [input |-> 1500, output |-> 7500, cache_read |-> 150, cache_write |-> 1875]

\* PRICING.get(model_id, DEFAULT_PRICING), rates times 100
Pricing(model_id) ==
    CASE model_id = "claude-opus-4-5-20251101" ->
            [input |-> 1500, output |-> 7500, cache_read |-> 150, cache_write |-> 1875]
      [] model_id = "claude-sonnet-4-5-20250929" ->
            [input |-> 300, output |-> 1500, cache_read |-> 30, cache_write |-> 375]
      [] OTHER ->
            [input |-> 300, output |-> 1500, cache_read |-> 30, cache_write |-> 375]

\* the cost of one modelUsage entry
ModelCost(model_id, u) ==
    LET pricing == Pricing(model_id)
    IN  Get(u, "inputTokens", Num(0)).v * pricing.input
        + Get(u, "outputTokens", Num(0)).v * pricing.output
        + Get(u, "cacheReadInputTokens", Num(0)).v * pricing.cache_read
        + Get(u, "cacheCreationInputTokens", Num(0)).v * pricing.cache_write

\* the loop over model_usage.items(): the total, or raised when an entry is
\* not an object (usage.get: AttributeError)
RECURSIVE ModelUsageCost(_, _)
ModelUsageCost(mu, i) ==
    IF i > Len(mu)
    THEN [raised |-> FALSE, total |-> 0]
    ELSE IF ~IsObj(mu[i].usage)
    THEN [raised |-> TRUE, total |-> 0]
    ELSE LET rest == ModelUsageCost(mu, i + 1)
         IN  [raised |-> rest.raised,
              total |-> ModelCost(mu[i].model, mu[i].usage) + rest.total]

\* "(cost_today_tokens / 1_000_000) * 5"
TodayCost(tokens) == tokens * 500

\* the loop over dailyModelTokens; acc is <<today, thirty>>
RECURSIVE DailyTokens(_, _, _, _)
DailyTokens(daily, i, today, acc) ==
    IF i > Len(daily)
    THEN acc
    ELSE LET e == daily[i]
             a1 == IF ~e.ok THEN acc
                   ELSE << IF e.day = today THEN e.tokens ELSE acc[1],
                           IF e.day >= today - ThirtyDays THEN acc[2] + e.tokens ELSE acc[2] >>
         IN  DailyTokens(daily, i + 1, today, a1)

\* ClaudeOAuthFetcher._load_local_cost_stats
ClaudeOAuthFetcher_load_local_cost_stats(cache, t) ==
    LET zero == [cost_today |-> 0, cost_today_tokens |-> 0,
                 cost_30_days |-> 0, cost_30_days_tokens |-> 0]
    IN  IF cache.kind # "json"
        THEN zero
        ELSE LET tok == DailyTokens(cache.daily, 1, Today(t), <<0, 0>>)
                 cost == ModelUsageCost(cache.modelUsage, 1)
                 counted == [zero EXCEPT !.cost_today_tokens = tok[1],
                                         !.cost_30_days_tokens = tok[2]]
             IN  IF cost.raised
                 THEN counted
                 ELSE [counted EXCEPT !.cost_30_days = cost.total,
                                      !.cost_today = TodayCost(tok[1])]

\* the lines of one first-provider session log: the sum of
\* message.usage.output_tokens, or raised when a line is valid JSON but not an
\* object (entry.get: AttributeError, which no handler of the loop catches)
RECURSIVE ClaudeSessionOutput(_, _)
ClaudeSessionOutput(lines, i) ==
    IF i > Len(lines)
    THEN [raised |-> FALSE, out |-> 0]
    ELSE LET entry == lines[i]
             rest == ClaudeSessionOutput(lines, i + 1)
             msg == Get(entry, "message", JNull)
             usg == Get(msg, "usage", JNull)
             n == Get(usg, "output_tokens", Num(0))
         IN  IF entry.t = "badjson" THEN rest
             ELSE IF ~IsObj(entry) THEN [raised |-> TRUE, out |-> 0]
             ELSE IF ~IsObj(msg) THEN rest
             ELSE IF ~IsObj(usg) THEN rest
             ELSE IF ~IsNum(n) THEN rest
             ELSE [raised |-> rest.raised, out |-> n.v + rest.out]

\* the loop over projects_dir.glob("**/*.jsonl"); acc is <<today, thirty>>
RECURSIVE ClaudeProjectsTokens(_, _, _, _)
ClaudeProjectsTokens(files, i, today, acc) ==
    IF i > Len(files)
    THEN acc
    ELSE LET f == files[i]
             r == ClaudeSessionOutput(f.lines, 1)
         IN  IF ~f.statOk \/ f.mday < today - ThirtyDays \/ ~f.readable
             THEN ClaudeProjectsTokens(files, i + 1, today, acc)
             ELSE IF r.raised
             THEN acc
             ELSE ClaudeProjectsTokens(files, i + 1, today,
                      << IF f.mday = today THEN acc[1] + r.out ELSE acc[1],
                         acc[2] + r.out >>)

\* ClaudeCollector._load_cost_stats
ClaudeCollector_load_cost_stats(s, projects, cache, t) ==
    LET tok == IF projects.exists
               THEN ClaudeProjectsTokens(projects.files, 1, Today(t),
                        <<s.cost_today_tokens, s.cost_30_days_tokens>>)
               ELSE <<s.cost_today_tokens, s.cost_30_days_tokens>>
        s1 == [s EXCEPT !.cost_today_tokens = tok[1], !.cost_30_days_tokens = tok[2]]
        cost == ModelUsageCost(cache.modelUsage, 1)
    IN  IF cache.kind # "json"
        THEN s1
        ELSE IF cost.raised
        THEN s1
        ELSE [s1 EXCEPT !.cost_30_days = cost.total,
                        !.cost_today = TodayCost(tok[1])]

\* _get_session_tokens (the same in both programs): the output_tokens of the
\* last token_count event, whatever JSON value it is
RECURSIVE GetSessionTokens(_, _, _)
GetSessionTokens(lines, i, last_output) ==
    IF i > Len(lines)
    THEN last_output
    ELSE LET entry == lines[i]
             p0 == Get(entry, "payload", JNull)
             payload == IF Truthy(p0) THEN p0 ELSE EmptyObj
             i0 == Get(payload, "info", JNull)
             info == IF Truthy(i0) THEN i0 ELSE EmptyObj
             u0 == Get(info, "total_token_usage", JNull)
             usg == IF Truthy(u0) THEN u0 ELSE EmptyObj
         IN  IF entry.t = "badjson"
             THEN GetSessionTokens(lines, i + 1, last_output)
             ELSE IF ~IsObj(entry) THEN last_output
             ELSE IF ~StrEq(Get(entry, "type", JNull), "event_msg")
             THEN GetSessionTokens(lines, i + 1, last_output)
             ELSE IF ~IsObj(payload) THEN last_output
             ELSE IF ~StrEq(Get(payload, "type", JNull), "token_count")
             THEN GetSessionTokens(lines, i + 1, last_output)
             ELSE IF ~IsObj(info) \/ ~IsObj(usg) THEN last_output
             ELSE GetSessionTokens(lines, i + 1, Get(usg, "output_tokens", Num(0)))

\* a walk that adds every session of the window to the first total and the
\* sessions of today to the second
RECURSIVE CodexSessionsTokensSwapped(_, _, _, _)
CodexSessionsTokensSwapped(files, i, today, acc) ==
    IF i > Len(files)
    THEN [raised |-> FALSE, acc |-> acc]
    ELSE LET f == files[i]
             tokens == GetSessionTokens(f.lines, 1, Num(0))
         IN  IF f.day < today - ThirtyDays
             THEN CodexSessionsTokensSwapped(files, i + 1, today, acc)
             ELSE IF ~IsNum(tokens)
             THEN [raised |-> TRUE, acc |-> acc]
             ELSE CodexSessionsTokensSwapped(files, i + 1, today,
                      << acc[1] + tokens.v,
                         IF f.day = today THEN acc[2] + tokens.v ELSE acc[2] >>)

\* the walk over sessions/YYYY/MM/DD/*.jsonl; acc is <<today, thirty>>; the
\* walk ends at the first session whose value cannot be added (TypeError)
RECURSIVE CodexSessionsTokens(_, _, _, _)
CodexSessionsTokens(files, i, today, acc) ==
    IF i > Len(files)
    THEN [raised |-> FALSE, acc |-> acc]
    ELSE LET f == files[i]
             tokens == GetSessionTokens(f.lines, 1, Num(0))
         IN  IF f.day < today - ThirtyDays
             THEN CodexSessionsTokens(files, i + 1, today, acc)
             ELSE IF ~IsNum(tokens)
             THEN [raised |-> TRUE, acc |-> acc]
             ELSE CodexSessionsTokens(files, i + 1, today,
                      << IF f.day = today THEN acc[1] + tokens.v ELSE acc[1],
                         acc[2] + tokens.v >>)

\* a scan that reports a missing sessions directory as unknown totals
CodexOAuthFetcher_load_local_cost_stats_Unknown(sessions, t) ==
    IF ~sessions.exists
    THEN <<0 - 1, 0 - 1>>
    ELSE CodexSessionsTokens(sessions.files, 1, Today(t), <<0, 0>>).acc

\* CodexOAuthFetcher._load_local_cost_stats: the totals reached when the walk
\* stops are the ones returned
CodexOAuthFetcher_load_local_cost_stats(sessions, t) ==
    IF ~sessions.exists
    THEN <<0, 0>>
    ELSE CodexSessionsTokens(sessions.files, 1, Today(t), <<0, 0>>).acc

\* CodexCollector._load_cost_stats: the totals are stored only when the walk
\* reaches its end
CodexCollector_load_cost_stats(s, sessions, t) ==
    LET r == CodexSessionsTokens(sessions.files, 1, Today(t), <<0, 0>>)
    IN  IF ~sessions.exists \/ r.raised
        THEN s
        ELSE [s EXCEPT !.cost_today_tokens = r.acc[1],
                       !.cost_30_days_tokens = r.acc[2]]

-----------------------------------------------------------------------------
(* Second provider: credentials and refresh *)

CodexMissing == [kind |-> "missing"]
CodexUnreadable == [kind |-> "unreadable"]
\* auth.json holding a JSON object
CodexJson(data) == [kind |-> "json", data |-> data]
\* the keys of auth.json; other_key stands for any key the programs do not know
AuthData(api_key, tokens, last_refresh, other) ==
    Obj([OPENAI_API_KEY |-> api_key, tokens |-> tokens,
         last_refresh |-> last_refresh, other_key |-> other])
\* the tokens object; other_field stands for any key the programs do not know
Tokens(access, refresh, id, account, other) ==
    Obj([access_token |-> access, refresh_token |-> refresh, id_token |-> id,
         account_id |-> account, other_field |-> other])

NoCreds == [t |-> "none"]
Creds(access, refresh, id, account, last) ==
    [t |-> "creds", access_token |-> access, refresh_token |-> refresh,
     id_token |-> id, account_id |-> account, last_refresh |-> last]

\* (x or "").strip() for a string or falsy x
OrEmptyStrip(j) == IF Truthy(j) THEN Str(Strip(j.v)) ELSE Str("")

\* CodexOAuthFetcher._load_credentials; every exception inside yields None
CodexOAuthFetcher_load_credentials(file) ==
    IF file.kind # "json" \/ ~IsObj(file.data)
    THEN NoCreds
    ELSE LET data == file.data
             k0 == Get(data, "OPENAI_API_KEY", JNull)
             api_key == IF ~Truthy(k0) THEN Str("")
                        ELSE IF IsStr(k0) THEN Str(Strip(k0.v)) ELSE k0
             tokens == Get(data, "tokens", EmptyObj)
             a0 == Get(tokens, "access_token", JNull)
             r0 == Get(tokens, "refresh_token", JNull)
             last_refresh_str == Get(data, "last_refresh", Str(""))
         IN  IF Truthy(api_key)
             THEN Creds(api_key, Str(""), JNull, JNull, NoTime)
             ELSE IF ~IsObj(tokens)
             THEN NoCreds                     \* None.get: AttributeError
             ELSE IF (Truthy(a0) /\ ~IsStr(a0)) \/ (Truthy(r0) /\ ~IsStr(r0))
             THEN NoCreds                     \* int.strip: AttributeError
             ELSE IF ~Truthy(OrEmptyStrip(a0))
             THEN NoCreds
             ELSE Creds(OrEmptyStrip(a0), OrEmptyStrip(r0),
                        Get(tokens, "id_token", JNull),
                        Get(tokens, "account_id", JNull),
                        IF Truthy(last_refresh_str) THEN FromIso(last_refresh_str)
                        ELSE NoTime)

\* CodexOAuthFetcher._needs_refresh
CodexOAuthFetcher_needs_refresh(c, t) ==
    IF ~Truthy(c.refresh_token)
    THEN FALSE
    ELSE IF c.last_refresh.t = "none"
    THEN TRUE
    ELSE t - c.last_refresh.wall > EightDays   \* replace(tzinfo=timezone.utc)

\* CodexOAuthFetcher._save_credentials: read, replace tokens and last_refresh,
\* write; a file that cannot be read back is left as it is
CodexOAuthFetcher_save_credentials(file, c, t) ==
    LET existing == IF file.kind = "missing"
                    THEN AuthData(JAbsent, JAbsent, JAbsent, JAbsent)
                    ELSE file.data
        tokens == Tokens(c.access_token, c.refresh_token,
                         IF Truthy(c.id_token) THEN c.id_token ELSE JAbsent,
                         IF Truthy(c.account_id) THEN c.account_id ELSE JAbsent,
                         JAbsent)
    IN  IF file.kind = "unreadable" \/ (file.kind = "json" /\ ~IsObj(file.data))
        THEN file
        ELSE CodexJson([existing EXCEPT !.f.tokens = tokens,
                                        !.f.last_refresh = Iso(t, TRUE, 0)])

\* a refresh whose result is not waited for: the file is rewritten, the poll
\* goes on with the credentials it had
CodexOAuthFetcher_refresh_token_NotAwaited(c, resp, file, t) ==
    IF resp.kind # "ok" \/ ~IsObj(resp.body)
    THEN [creds |-> NoCreds, file |-> file]
    ELSE LET data == resp.body
             new_creds == Creds(Get(data, "access_token", c.access_token),
                                Get(data, "refresh_token", c.refresh_token),
                                Get(data, "id_token", c.id_token),
                                c.account_id,
                                Time(t, TRUE, 0))
         IN  [creds |-> NoCreds,
              file |-> CodexOAuthFetcher_save_credentials(file, new_creds, t)]

\* CodexOAuthFetcher._refresh_token for a non-empty refresh token: the new
\* credentials (None when the refresh failed) and the auth file afterwards
CodexOAuthFetcher_refresh_token(c, resp, file, t) ==
    IF resp.kind # "ok" \/ ~IsObj(resp.body)
    THEN [creds |-> NoCreds, file |-> file]
    ELSE LET data == resp.body
             new_creds == Creds(Get(data, "access_token", c.access_token),
                                Get(data, "refresh_token", c.refresh_token),
                                Get(data, "id_token", c.id_token),
                                c.account_id,
                                Time(t, TRUE, 0))
         IN  [creds |-> new_creds,
              file |-> CodexOAuthFetcher_save_credentials(file, new_creds, t)]

\* the credential the backend sends: tokens.access_token, else OPENAI_API_KEY
CodexCollector_collect_creds(s, file) ==
    IF file.kind = "missing"
    THEN [next |-> "return", stats |-> [s EXCEPT !.error_message = "Not logged in"],
          creds |-> NoCreds]
    ELSE IF file.kind = "unreadable"
    THEN [next |-> "return",
          stats |-> [s EXCEPT !.error_message = "Failed to read auth file"],
          creds |-> NoCreds]
    ELSE LET auth == file.data
             tokens == Get(auth, "tokens", EmptyObj)
             a0 == Get(tokens, "access_token", Str(""))
             k0 == Get(auth, "OPENAI_API_KEY", Str(""))
             token == IF Truthy(Str(Strip(a0.v))) THEN Str(Strip(a0.v))
                      ELSE Str(Strip(k0.v))
         IN  IF ~IsObj(auth) \/ ~IsObj(tokens) \/ ~IsStr(a0)
             THEN [next |-> "raise", stats |-> s, creds |-> NoCreds]
             ELSE IF ~Truthy(Str(Strip(a0.v))) /\ ~IsStr(k0)
             THEN [next |-> "raise", stats |-> s, creds |-> NoCreds]
             ELSE IF ~Truthy(token)
             THEN [next |-> "return",
                   stats |-> [s EXCEPT !.error_message = "No access token"],
                   creds |-> NoCreds]
             ELSE [next |-> "fetch", stats |-> s,
                   creds |-> Creds(token, Str(""), JNull,
                                   Get(tokens, "account_id", JNull), NoTime)]

-----------------------------------------------------------------------------
(* Second provider: normalising the usage response *)

\* PLAN_DISPLAY_NAMES.get(plan_type, plan_type.replace("_", " ").title())
CodexPlanName(plan_type) ==
    CASE plan_type = "plus" -> "Plus"
      [] plan_type = "pro" -> "Pro"
      [] plan_type = "unknown" -> "Unknown"
      [] plan_type = "" -> "Unknown"
      [] OTHER -> "Other"

\* one window of the response as the monitor reads it
MonitorCodexWindow(w, pct0, reset0) ==
    IF ~Truthy(w)
    THEN [raised |-> FALSE, pct |-> pct0, reset |-> reset0]
    ELSE IF ~IsObj(w)
    THEN [raised |-> TRUE, pct |-> pct0, reset |-> reset0]
    ELSE LET used == Get(w, "used_percent", Num(0))
             reset_at == Get(w, "reset_at", JNull)
         IN  IF ~IsNum(used)
             THEN [raised |-> TRUE, pct |-> pct0, reset |-> reset0]  \* float(None)
             ELSE [raised |-> FALSE, pct |-> used,
                   reset |-> IF Truthy(reset_at) /\ IsNum(reset_at)
                             THEN Time(reset_at.v, TRUE, 0) ELSE reset0]

\* "Calculate pace for secondary window" of CodexOAuthFetcher.collect
MonitorCodexPace(s, secondary, t) ==
    IF s.weekly_reset_time.t = "none" \/ ~(s.weekly_used_pct.v > 0)
    THEN Step("scan", s)
    ELSE LET w == Get(secondary, "limit_window_seconds", Num(7 * 24 * 3600))
         IN  IF ~IsNum(w)
             THEN Step("raise", s)        \* timedelta(seconds=None): TypeError
             ELSE IF w.v = 0
             THEN Step("raise", s)        \* ZeroDivisionError
             ELSE LET p == PaceDelta(s.weekly_used_pct.v, s.weekly_reset_time, w.v, t)
                  IN  Step("scan", [s EXCEPT !.pace_percentage = p,
                                             !.pace_status = PaceStatus(p)])

\* CodexOAuthFetcher.collect from the decoded response to the pace
CodexOAuthFetcher_collect_usage(s, usage_data, t) ==
    IF ~Truthy(usage_data)
    THEN Step("return", [s EXCEPT !.error_message = "Failed to fetch usage data",
                                  !.is_connected = TRUE])
    ELSE LET s1 == [s EXCEPT !.is_connected = TRUE]
             plan_type == Get(usage_data, "plan_type", Str("unknown"))
             rate_limit == Get(usage_data, "rate_limit", EmptyObj)
             secondary == Get(rate_limit, "secondary_window", EmptyObj)
             prim == MonitorCodexWindow(Get(rate_limit, "primary_window", EmptyObj),
                                        s1.session_used_pct, s1.session_reset_time)
             sec == MonitorCodexWindow(secondary, s1.weekly_used_pct, s1.weekly_reset_time)
         IN  IF ~IsObj(usage_data) \/ ~IsStr(plan_type)
             THEN Step("raise", s1)          \* list.get, None.replace
             ELSE IF ~IsObj(rate_limit)
             THEN Step("raise", s1)          \* None.get
             ELSE IF prim.raised \/ sec.raised
             THEN Step("raise", s1)
             ELSE MonitorCodexPace(
                      [s1 EXCEPT !.plan_name = CodexPlanName(plan_type.v),
                                 !.session_used_pct = prim.pct,
                                 !.session_reset_time = prim.reset,
                                 !.weekly_used_pct = sec.pct,
                                 !.weekly_reset_time = sec.reset], secondary, t)

\* one window of the response as the backend reads it: the percentage is the
\* raw value, the reset time the isoformat() of the epoch seconds
BackendCodexWindow(w, pct0, reset0) ==
    IF ~Truthy(w)
    THEN [raised |-> FALSE, pct |-> pct0, reset |-> reset0]
    ELSE IF ~IsObj(w)
    THEN [raised |-> TRUE, pct |-> pct0, reset |-> reset0]
    ELSE LET used == Get(w, "used_percent", Num(0))
             reset_at == Get(w, "reset_at", JNull)
         IN  IF Truthy(reset_at) /\ ~IsNum(reset_at)
             THEN [raised |-> TRUE, pct |-> used, reset |-> reset0]  \* fromtimestamp("x")
             ELSE [raised |-> FALSE, pct |-> used,
                   reset |-> IF Truthy(reset_at) THEN Iso(reset_at.v, TRUE, 0) ELSE reset0]

\* "Calculate pace for secondary window" of CodexCollector.collect: every
\* error inside is swallowed
BackendCodexPace(s, secondary, t) ==
    LET w == Get(secondary, "limit_window_seconds", Num(7 * 24 * 3600))
        reset == FromIso(s.weekly_reset_time)
    IN  IF s.weekly_reset_time.t = "none"
        THEN s
        ELSE IF ~IsNum(w) \/ ~IsNum(s.weekly_used_pct)
        THEN s
        ELSE IF w.v = 0
        THEN s
        ELSE [s EXCEPT !.pace_status =
                 PaceStatus(PaceDelta(s.weekly_used_pct.v, reset, w.v, t))]

\* the try block of CodexCollector.collect with its two handlers
CodexCollector_collect_usage(s, resp, t) ==
    CASE resp.kind = "httpError" ->
            Step("scan", [s EXCEPT !.error_message = "API error", !.is_connected = TRUE])
      [] resp.kind \in {"netError", "badJson"} ->
            Step("scan", [s EXCEPT !.error_message = "Failed to fetch"])
      [] resp.kind = "status" -> Step("scan", s)
      [] OTHER ->
            LET data == resp.body
                s1 == [s EXCEPT !.is_connected = TRUE]
                plan_type == Get(data, "plan_type", Str(""))
                s2 == [s1 EXCEPT !.plan_name = CodexPlanName(plan_type.v)]
                rate_limit == Get(data, "rate_limit", EmptyObj)
                secondary == Get(rate_limit, "secondary_window", EmptyObj)
                prim == BackendCodexWindow(Get(rate_limit, "primary_window", EmptyObj),
                                           s2.session_used_pct, s2.session_reset_time)
                s3 == [s2 EXCEPT !.session_used_pct = prim.pct,
                                 !.session_reset_time = prim.reset]
                sec == BackendCodexWindow(secondary, s3.weekly_used_pct, s3.weekly_reset_time)
                s4 == [s3 EXCEPT !.weekly_used_pct = sec.pct,
                                 !.weekly_reset_time = sec.reset]
            IN  IF ~IsObj(data) \/ ~IsStr(plan_type)
                THEN Step("scan", [s1 EXCEPT !.error_message = "Failed to fetch"])
                ELSE IF ~IsObj(rate_limit)
                THEN Step("scan", [s2 EXCEPT !.error_message = "Failed to fetch"])
                ELSE IF prim.raised
                THEN Step("scan", [s3 EXCEPT !.error_message = "Failed to fetch"])
                ELSE IF sec.raised
                THEN Step("scan", [s4 EXCEPT !.error_message = "Failed to fetch"])
                ELSE Step("scan", BackendCodexPace(s4, secondary, t))

-----------------------------------------------------------------------------
(* URLs.  A URL is the sequence of the pieces it is written with: the      *)
(* scheme, the pieces of the host, the segments of the path ("/" is an     *)
(* empty segment), so that equality, prefix and substring of the strings   *)
(* the program handles are equality, prefix and membership here.           *)

CLAUDE_OAUTH_API_URL == <<"https://", "api.anthropic.com", "/api/oauth/usage">>
CODEX_OAUTH_API_URL == <<"https://", "chatgpt.com", "/backend-api", "/wham/usage">>
REFRESH_ENDPOINT == <<"https://", "auth.openai.com", "/oauth/token">>
DEFAULT_BASE_URL == <<"https://", "chatgpt.com", "/backend-api">>

\* url.startswith(prefix)
StartsWith(url, prefix) ==
    /\ Len(prefix) <= Len(url)
    /\ SubSeq(url, 1, Len(prefix)) = prefix

\* piece in url
Contains(url, piece) == \E i \in DOMAIN url : url[i] = piece

\* url.rstrip('/')
RECURSIVE RStripSlash(_)
RStripSlash(url) ==
    IF url # <<>> /\ url[Len(url)] = "/"
    THEN RStripSlash(SubSeq(url, 1, Len(url) - 1))
    ELSE url

\* CodexOAuthFetcher._resolve_base_url
CodexOAuthFetcher_resolve_base_url(cfg) ==
    LET configured == IF cfg.exists /\ cfg.has_key /\ cfg.chatgpt_base_url # <<>>
                      THEN cfg.chatgpt_base_url
                      ELSE DEFAULT_BASE_URL
        base_url == RStripSlash(configured)
    IN  IF /\ \/ StartsWith(base_url, <<"https://", "chatgpt.com">>)
              \/ StartsWith(base_url, <<"https://", "chat.openai.com">>)
           /\ ~Contains(base_url, "/backend-api")
        THEN base_url \o <<"/backend-api">>
        ELSE base_url

\* "usage_url = base_url + usage_path" of CodexOAuthFetcher._fetch_usage_api
CodexOAuthFetcher_usage_url(cfg) ==
    LET base_url == CodexOAuthFetcher_resolve_base_url(cfg)
        usage_path == IF Contains(base_url, "/backend-api")
                      THEN "/wham/usage"
                      ELSE "/api/codex/usage"
    IN  base_url \o <<usage_path>>

-----------------------------------------------------------------------------
(* The environment: what the files hold and what the servers answer *)

Half == Day \div 2
Hour == Day \div 24

ClaudeCredsObj(token, exp, tier) ==
    Obj([accessToken |-> token, expiresAt |-> exp,
         subscriptionType |-> Str("pro"), rateLimitTier |-> tier])

ClaudeFiles ==
    { ClaudeMissing, ClaudeUnreadable, ClaudeJson(JAbsent), ClaudeJson(JNull),
      ClaudeJson(ClaudeCredsObj(Str(""), JAbsent, JAbsent)),
      ClaudeJson(ClaudeCredsObj(Str("tokA"), JAbsent, JAbsent)),
      ClaudeJson(ClaudeCredsObj(Str("tokA"), Num(0), Str("max"))),
      ClaudeJson(ClaudeCredsObj(Str("tokA"), Num(1), JAbsent)),
      ClaudeJson(ClaudeCredsObj(Str("tokA"), Num((T0 - Day) * 1000), JAbsent)),
      ClaudeJson(ClaudeCredsObj(Str("tokA"), Num((T0 + Day) * 1000), JAbsent)),
      ClaudeJson(ClaudeCredsObj(Str("tokA"), JAbsent, JNull)) }

ClaudeWindow(util, resets_at) == Obj([utilization |-> util, resets_at |-> resets_at])

ClaudeWindows(t) ==
    { JAbsent, JNull, JList(1),
      ClaudeWindow(Num(50), JAbsent),
      ClaudeWindow(Num(0), Iso(t + 7 * Half, TRUE, 0)),
      ClaudeWindow(Num(50), Iso(t + 7 * Half, TRUE, 0)),
      ClaudeWindow(Num(50), Iso(t + 6 * Day, TRUE, 0)),
      ClaudeWindow(Num(50), Iso(t + Day, TRUE, 0)),
      ClaudeWindow(Num(0), Iso(t + 7 * Day, TRUE, 0)),
      ClaudeWindow(Num(120), Iso(t + Day, TRUE, 0)),
      ClaudeWindow(Num(50), Iso(t + 7 * Half + 2 * Hour, TRUE, 2 * Hour)),
      ClaudeWindow(Num(50), Iso(t + Day, FALSE, 0)),
      ClaudeWindow(Num(50), Str("garbage")),
      ClaudeWindow(JNull, Iso(t + Day, TRUE, 0)) }

ClaudeBodies(t) ==
    { JList(1), EmptyObj }
    \cup { Obj([five_hour |-> JAbsent, seven_day |-> w]) : w \in ClaudeWindows(t) }
    \cup { Obj([five_hour |-> ClaudeWindow(Num(10), Iso(t + Hour, TRUE, 0)),
                seven_day |-> ClaudeWindow(Num(50), Iso(t + Day, TRUE, 0))]),
           Obj([five_hour |-> JList(1), seven_day |-> JAbsent]) }

Transport == { HttpStatus, HttpError(500), NetError, BadJson }

ClaudeResponses(t) == Transport \cup { HttpOk(b) : b \in ClaudeBodies(t) }

CodexWindow(used, reset_at, lws) ==
    Obj([used_percent |-> used, reset_at |-> reset_at, limit_window_seconds |-> lws])

CodexWindows(t) ==
    { JAbsent, JNull,
      CodexWindow(Num(50), JAbsent, JAbsent),
      CodexWindow(Num(0), Num(t + 7 * Half), JAbsent),
      CodexWindow(Num(50), Num(t + 7 * Half), JAbsent),
      CodexWindow(Num(50), Num(t + Day), JAbsent),
      CodexWindow(Num(50), Num(t + 6 * Day), JAbsent),
      CodexWindow(Num(50), Num(t + Day), Num(2 * Day)),
      CodexWindow(Num(50), Num(t + Day), Num(0)),
      CodexWindow(Num(50), Num(t + Day), JNull),
      CodexWindow(Str("abc"), Num(t + Day), JAbsent),
      CodexWindow(Num(50), Str("soon"), JAbsent) }

CodexBody(plan, rate_limit) == Obj([plan_type |-> plan, rate_limit |-> rate_limit])

CodexBodies(t) ==
    { JList(1), EmptyObj,
      CodexBody(JNull, JAbsent),
      CodexBody(Str("plus"), JNull),
      CodexBody(Str("plus"),
                Obj([primary_window |-> CodexWindow(Num(10), Num(t + Hour), JAbsent),
                     secondary_window |-> CodexWindow(Num(50), Num(t + Day), JAbsent)])) }
    \cup { CodexBody(Str("plus"), Obj([primary_window |-> JAbsent, secondary_window |-> w])) :
             w \in CodexWindows(t) }

CodexResponses(t) == Transport \cup { HttpOk(b) : b \in CodexBodies(t) }

RefreshResponses ==
    { HttpError(400), NetError, BadJson, HttpStatus,
      HttpOk(JList(1)),
      HttpOk(EmptyObj),
      HttpOk(Obj([access_token |-> Str("tokNew"), refresh_token |-> Str("refNew"),
                  id_token |-> JAbsent])),
      HttpOk(Obj([access_token |-> Str("tokNew"), refresh_token |-> JAbsent,
                  id_token |-> Str("idNew")])) }

CodexFiles ==
    { CodexMissing, CodexUnreadable,
      \* an API key alone, an API key beside OAuth tokens, a blank API key
      CodexJson(AuthData(Str("sk-key"), JNull, JAbsent, JAbsent)),
      CodexJson(AuthData(Str("sk-key"),
                         Tokens(Str("tokB"), Str("refB"), JNull, JNull, JAbsent),
                         JAbsent, JAbsent)),
      CodexJson(AuthData(Str(" "),
                         Tokens(Str("tokB"), Str(""), JNull, JNull, JAbsent),
                         JAbsent, JAbsent)),
      \* OAuth tokens: last refresh unknown, stale, fresh, with a UTC offset,
      \* unparseable
      CodexJson(AuthData(JNull,
                         Tokens(Str("tokB"), Str("refB"), Str("idB"), Str("acct"), Str("keep")),
                         JAbsent, Str("keep"))),
      CodexJson(AuthData(JNull,
                         Tokens(Str("tokB"), Str("refB"), JNull, JNull, JAbsent),
                         Iso(T0 - 9 * Day, TRUE, 0), Str("keep"))),
      CodexJson(AuthData(JNull,
                         Tokens(Str("tokB"), Str("refB"), JNull, JNull, JAbsent),
                         Iso(T0 - Day, TRUE, 0), JAbsent)),
      CodexJson(AuthData(JNull,
                         Tokens(Str("tokB"), Str("refB"), JNull, JNull, JAbsent),
                         Iso(T0 - 8 * Day + Hour, TRUE, 2 * Hour), JAbsent)),
      CodexJson(AuthData(JNull,
                         Tokens(Str("tokB"), Str("refB"), JNull, JNull, JAbsent),
                         Str("garbage"), JAbsent)),
      \* no refresh token, no access token, no credential at all
      CodexJson(AuthData(JNull,
                         Tokens(Str("tokB"), Str(""), JNull, JNull, JAbsent),
                         Iso(T0 - 9 * Day, TRUE, 0), JAbsent)),
      CodexJson(AuthData(JNull,
                         Tokens(Str(""), Str("refB"), JNull, JNull, JAbsent),
                         JAbsent, JAbsent)),
      CodexJson(AuthData(JNull, JAbsent, JAbsent, JAbsent)) }

\* a session-log line of the first provider carrying n output tokens
ClaudeLine(n) == Obj([message |-> Obj([usage |-> Obj([output_tokens |-> Num(n)])])])
\* a token_count event of the second provider with cumulative output n
TokenCount(n) ==
    Obj([type |-> Str("event_msg"),
         payload |-> Obj([type |-> Str("token_count"),
                          info |-> Obj([total_token_usage |->
                                          Obj([output_tokens |-> Num(n)])])])])
ModelUsage(model, i, o, cr, cw) ==
    [model |-> model,
     usage |-> Obj([inputTokens |-> Num(i), outputTokens |-> Num(o),
                    cacheReadInputTokens |-> Num(cr), cacheCreationInputTokens |-> Num(cw)])]

NoLedger ==
    [cache |-> [kind |-> "missing"],
     projects |-> [exists |-> FALSE, files |-> <<>>],
     sessions |-> [exists |-> FALSE, files |-> <<>>]]

SomeLedger ==
    [cache |-> [kind |-> "json",
                daily |-> << [ok |-> TRUE, day |-> Today(T0) - 40, tokens |-> 300],
                             [ok |-> TRUE, day |-> Today(T0) - 10, tokens |-> 200],
                             [ok |-> FALSE, day |-> 0, tokens |-> 0],
                             [ok |-> TRUE, day |-> Today(T0), tokens |-> 100] >>,
                modelUsage |-> << ModelUsage("claude-opus-4-5-20251101", 10, 20, 30, 40),
                                  ModelUsage("some-other-model", 1, 2, 3, 4) >>],
     projects |-> [exists |-> TRUE,
                   files |-> << [mday |-> Today(T0), statOk |-> TRUE, readable |-> TRUE,
                                 lines |-> <<ClaudeLine(60), BadLine, ClaudeLine(40)>>],
                                [mday |-> Today(T0) - 10, statOk |-> TRUE, readable |-> TRUE,
                                 lines |-> <<ClaudeLine(200)>>],
                                [mday |-> Today(T0) - 40, statOk |-> TRUE, readable |-> TRUE,
                                 lines |-> <<ClaudeLine(300)>>] >>],
     sessions |-> [exists |-> TRUE,
                   files |-> << [day |-> Today(T0) - 40, lines |-> <<TokenCount(300)>>],
                                [day |-> Today(T0) - 10, lines |-> <<TokenCount(200)>>],
                                [day |-> Today(T0),
                                 lines |-> <<TokenCount(50), BadLine, TokenCount(100)>>] >>]]

Ledgers == { NoLedger, SomeLedger }

\* the longest session log and the longest modelUsage mapping drawn
MaxLines == 2

\* every sequence over S of at most n elements
SeqUpTo(S, n) == UNION { [1..k -> S] : k \in 0..n }

\* a token_count event whose output_tokens is null
NullTokenCount ==
    Obj([type |-> Str("event_msg"),
         payload |-> Obj([type |-> Str("token_count"),
                          info |-> Obj([total_token_usage |->
                                          Obj([output_tokens |-> JNull])])])])
\* an event of another kind
OtherEvent ==
    Obj([type |-> Str("event_msg"), payload |-> Obj([type |-> Str("agent_message")])])

\* the lines a second-provider session file is made of: token_count events,
\* a line that is not JSON, a JSON line that is not an object, another event,
\* a token_count event without a number
CodexLines == { TokenCount(50), TokenCount(80), BadLine, JNull, OtherEvent, NullTokenCount }

NoCache == [kind |-> "missing"]
NoProjects == [exists |-> FALSE, files |-> <<>>]
NoSessions == [exists |-> FALSE, files |-> <<>>]

\* the session files of SomeLedger that are in the window
OldSession == [day |-> Today(T0) - 10, lines |-> <<TokenCount(200)>>]
TodaySession == [day |-> Today(T0), lines |-> <<TokenCount(100)>>]

\* sessions/YYYY/MM/DD walked in sorted order: one file of any content, dated
\* 31 or 30 days ago, today or tomorrow, beside the two files above
CodexSessionCases ==
    { [exists |-> TRUE, files |-> <<[day |-> d, lines |-> l], OldSession, TodaySession>>] :
        d \in {Today(T0) - 31, Today(T0) - 30}, l \in SeqUpTo(CodexLines, MaxLines) }
    \cup
    { [exists |-> TRUE, files |-> <<OldSession, [day |-> Today(T0), lines |-> l], TodaySession>>] :
        l \in SeqUpTo(CodexLines, MaxLines) }
    \cup
    { [exists |-> TRUE, files |-> <<OldSession, TodaySession, [day |-> Today(T0) + 1, lines |-> l]>>] :
        l \in SeqUpTo(CodexLines, MaxLines) }

\* the lines a first-provider session log is made of
ClaudeLines ==
    { ClaudeLine(60), ClaudeLine(40), BadLine, JNull,
      Obj([message |-> Str("text")]),
      Obj([message |-> Obj([usage |-> Obj([output_tokens |-> JNull])])]) }

\* projects/**/*.jsonl: one log of any content modified today, one that cannot
\* be read or whose stat fails, one modified 10 days ago
ClaudeProjectCases ==
    { [exists |-> TRUE,
       files |-> << [mday |-> Today(T0), statOk |-> TRUE, readable |-> TRUE, lines |-> l],
                    [mday |-> Today(T0), statOk |-> ok[1], readable |-> ok[2],
                     lines |-> <<ClaudeLine(7)>>],
                    [mday |-> Today(T0) - 10, statOk |-> TRUE, readable |-> TRUE,
                     lines |-> <<ClaudeLine(200)>>] >>] :
        l \in SeqUpTo(ClaudeLines, MaxLines),
        ok \in { <<TRUE, FALSE>>, <<FALSE, TRUE>> } }

\* the entries of a modelUsage mapping: the two listed models, an unlisted
\* one, and an entry that is not an object
ModelUsageEntries ==
    { ModelUsage("claude-opus-4-5-20251101", 10, 20, 30, 40),
      ModelUsage("claude-sonnet-4-5-20250929", 10, 20, 30, 40),
      ModelUsage("some-other-model", 1, 2, 3, 4),
      [model |-> "claude-opus-4-5-20251101", usage |-> Obj([outputTokens |-> Num(7)])],
      [model |-> "some-other-model", usage |-> JNull] }

\* the modelUsage mappings: a JSON object lists a model id once
ModelUsages ==
    { mu \in SeqUpTo(ModelUsageEntries, MaxLines) :
        \A i, j \in DOMAIN mu : i # j => mu[i].model # mu[j].model }

\* stats-cache.json with today's tokens n and any modelUsage mapping
CacheCases ==
    { [kind |-> "json",
       daily |-> << [ok |-> TRUE, day |-> Today(T0) - 10, tokens |-> 200],
                    [ok |-> TRUE, day |-> Today(T0), tokens |-> n] >>,
       modelUsage |-> mu] :
        n \in {0, 100}, mu \in ModelUsages }

\* the ledgers of the scan: each varies one root and fixes the others
LedgerCases ==
    { [cache |-> NoCache, projects |-> NoProjects, sessions |-> x] : x \in CodexSessionCases }
    \cup { [cache |-> c, projects |-> x, sessions |-> NoSessions] :
             c \in { NoCache, SomeLedger.cache }, x \in ClaudeProjectCases }
    \cup { [cache |-> x, projects |-> p, sessions |-> NoSessions] :
             x \in CacheCases, p \in { NoProjects, SomeLedger.projects } }
    \cup { [cache |-> c, projects |-> p, sessions |-> x] :
             c \in { NoCache, SomeLedger.cache },
             p \in { NoProjects, SomeLedger.projects },
             x \in { NoSessions, SomeLedger.sessions } }

-----------------------------------------------------------------------------
(* One poll cycle: refresh_stats of the monitor, main of the backend *)

\* a network call as the log keeps it: the request, the answer, and the auth
\* file as it was when the call was made
Call(op, url, bearer, account, refresh, resp, before) ==
    [op |-> op, url |-> url, bearer |-> bearer, account |-> account, refresh |-> refresh,
     resp |-> resp, before |-> before]

\* config.toml does not exist
NoConfig == [exists |-> FALSE]

\* config.toml as _resolve_base_url reads it: whether it has a
\* chatgpt_base_url line, and the value of the first one, quotes stripped
ConfigToml(has_key, value) ==
    [exists |-> TRUE, has_key |-> has_key, chatgpt_base_url |-> value]

\* no refresh POST was made
NoPost == [t |-> "none"]

\* the refresh POST made at time t and its answer
Post(t, resp) == [t |-> "post", at |-> t, resp |-> resp]

\* no poll was made yet
NoPoll == [at |-> 0, post |-> NoPost, outcome |-> "none"]

\* the application while the thread of main() (of run(), in the monitor) makes
\* the first poll: no timer, no indicator menu, no window yet
MainCall ==
    [callback |-> "run", refresh_timeout_id |-> "none", indicator |-> FALSE,
     menu |-> "none", window |-> "none", quit |-> FALSE, pending |-> {},
     active |-> 1, polls |-> 0, last |-> NoPoll, last_post |-> NoPost]

Init ==
    /\ impl \in {"monitor", "backend"}
    /\ now = T0
    /\ claudeFile \in ClaudeFiles
    /\ codexFile \in CodexFiles
    /\ ledger \in Ledgers
    /\ providers = [p \in Providers |-> NoSnapshot]
    /\ pc = "idle"
    /\ cur = "none"
    /\ stats = NoSnapshot
    /\ creds = NoCreds
    /\ net = [p \in Providers |-> <<>>]
    /\ produced = {}
    /\ outcome = "none"
    /\ config = NoConfig
    /\ app = MainCall

\* an assignment that keeps the token totals of the entry it replaces when
\* the new snapshot reports an error
ReturnKeepingTotals(s) ==
    /\ providers' = [providers EXCEPT ![cur] =
                         IF @.t = "snapshot" /\ s.error_message # ""
                         THEN [s EXCEPT !.cost_today_tokens = providers[cur].cost_today_tokens,
                                        !.cost_30_days_tokens = providers[cur].cost_30_days_tokens]
                         ELSE s]
    /\ produced' = produced \cup {cur}
    /\ creds' = NoCreds
    /\ IF cur = "claude"
       THEN /\ pc' = "load"
            /\ cur' = "codex"
            /\ stats' = ProviderStats("codex")
            /\ outcome' = outcome
       ELSE /\ pc' = "idle"
            /\ cur' = "none"
            /\ stats' = NoSnapshot
            /\ outcome' = "completed"

\* "self.providers[provider_id] = collector.collect()" /
\* "providers.append(collector.collect())", and on to the next collector
Return(s) ==
    /\ providers' = [providers EXCEPT ![cur] = s]
    /\ produced' = produced \cup {cur}
    /\ creds' = NoCreds
    /\ IF cur = "claude"
       THEN /\ pc' = "load"
            /\ cur' = "codex"
            /\ stats' = ProviderStats("codex")
            /\ outcome' = outcome
       ELSE /\ pc' = "idle"
            /\ cur' = "none"
            /\ stats' = NoSnapshot
            /\ outcome' = "completed"

\* the entry main() appends when collect raised
FallbackEntry(pid) ==
    [ProviderStats(pid) EXCEPT !.full = FALSE, !.error_message = "exception"]

\* collect raised: refresh_stats has no handler, and the exception leaves the
\* loop (cur stays at the collector that raised); main() catches it and
\* appends a fallback entry
Raise ==
    IF impl = "monitor"
    THEN /\ pc' = "idle"
         /\ cur' = cur
         /\ stats' = NoSnapshot
         /\ creds' = NoCreds
         /\ outcome' = "aborted"
         /\ UNCHANGED <<providers, produced>>
    ELSE Return(FallbackEntry(cur))

\* collect goes on to its next step
Goto(next, s, c) ==
    /\ pc' = next
    /\ stats' = s
    /\ creds' = c
    /\ UNCHANGED <<providers, produced, cur, outcome>>

Continue(r, c) ==
    CASE r.next = "return" -> Return(r.stats)
      [] r.next = "raise" -> Raise
      [] OTHER -> Goto(r.next, r.stats, c)

\* refresh_stats / main start the loop over the collectors
StartCycle ==
    /\ pc = "idle"
    /\ outcome = "none"
    /\ pc' = "load"
    /\ cur' = "claude"
    /\ stats' = ProviderStats("claude")
    /\ outcome' = "running"
    /\ UNCHANGED <<config, app, impl, now, claudeFile, codexFile, ledger, providers, creds, net, produced>>

ClaudeLoad ==
    /\ pc = "load"
    /\ cur = "claude"
    /\ LET r == IF impl = "monitor"
                THEN ClaudeOAuthFetcher_collect_creds(stats, claudeFile, now)
                ELSE ClaudeCollector_collect_creds(stats, claudeFile, now)
       IN  Continue(r, IF r.next = "fetch"
                       THEN Creds(Get(claudeFile.oauth, "accessToken", JNull),
                                  Str(""), JNull, JNull, NoTime)
                       ELSE NoCreds)
    /\ UNCHANGED <<config, app, impl, now, claudeFile, codexFile, ledger, net>>

ClaudeFetch ==
    /\ pc = "fetch"
    /\ cur = "claude"
    /\ \E resp \in ClaudeResponses(now) :
          /\ net' = [net EXCEPT !["claude"] =
                        Append(@, Call("GET", CLAUDE_OAUTH_API_URL, creds.access_token,
                                       JNull, JNull, resp, codexFile))]
          /\ Continue(IF impl = "monitor"
                      THEN ClaudeOAuthFetcher_collect_usage(stats, FetchUsageApi(resp), now)
                      ELSE ClaudeCollector_collect_usage(stats, resp, now),
                      creds)
    /\ UNCHANGED <<config, app, impl, now, claudeFile, codexFile, ledger>>

\* "Load local cost stats" of ClaudeOAuthFetcher.collect
ClaudeOAuthFetcher_collect_scan(s, cache, t) ==
    LET local_stats == ClaudeOAuthFetcher_load_local_cost_stats(cache, t)
    IN  [s EXCEPT !.cost_today = local_stats.cost_today,
                  !.cost_today_tokens = local_stats.cost_today_tokens,
                  !.cost_30_days = local_stats.cost_30_days,
                  !.cost_30_days_tokens = local_stats.cost_30_days_tokens]

ClaudeScan ==
    /\ pc = "scan"
    /\ cur = "claude"
    /\ Return(IF impl = "monitor"
              THEN ClaudeOAuthFetcher_collect_scan(stats, ledger.cache, now)
              ELSE ClaudeCollector_load_cost_stats(stats, ledger.projects, ledger.cache, now))
    /\ UNCHANGED <<config, app, impl, now, claudeFile, codexFile, ledger, net>>

\* CodexOAuthFetcher.collect up to the refresh
CodexOAuthFetcher_collect_creds(s, file, t) ==
    LET c == CodexOAuthFetcher_load_credentials(file)
    IN  IF c.t = "none"
        THEN [next |-> "return", stats |-> [s EXCEPT !.error_message = "Not logged in"],
              creds |-> NoCreds]
        ELSE IF ~Truthy(c.access_token)
        THEN [next |-> "return",
              stats |-> [s EXCEPT !.error_message = "No access token found"],
              creds |-> NoCreds]
        ELSE [next |-> IF CodexOAuthFetcher_needs_refresh(c, t) THEN "refresh" ELSE "fetch",
              stats |-> s, creds |-> c]

CodexLoad ==
    /\ pc = "load"
    /\ cur = "codex"
    /\ LET r == IF impl = "monitor"
                THEN CodexOAuthFetcher_collect_creds(stats, codexFile, now)
                ELSE CodexCollector_collect_creds(stats, codexFile)
       IN  Continue(r, r.creds)
    /\ UNCHANGED <<config, app, impl, now, claudeFile, codexFile, ledger, net>>

\* "refreshed = self._refresh_token(creds); if refreshed: creds = refreshed"
CodexRefresh ==
    /\ pc = "refresh"
    /\ cur = "codex"
    /\ \E resp \in RefreshResponses :
          LET r == CodexOAuthFetcher_refresh_token(creds, resp, codexFile, now)
          IN  /\ codexFile' = r.file
              /\ net' = [net EXCEPT !["codex"] =
                            Append(@, Call("POST", REFRESH_ENDPOINT, JNull, JNull, creds.refresh_token,
                                           resp, codexFile))]
              /\ Goto("fetch", stats, IF r.creds.t = "none" THEN creds ELSE r.creds)
    /\ UNCHANGED <<config, app, impl, now, claudeFile, ledger>>

CodexFetch ==
    /\ pc = "fetch"
    /\ cur = "codex"
    /\ \E resp \in CodexResponses(now) :
          /\ net' = [net EXCEPT !["codex"] =
                        Append(@, Call("GET",
                                       IF impl = "monitor"
                                       THEN CodexOAuthFetcher_usage_url(config)
                                       ELSE CODEX_OAUTH_API_URL,
                                       creds.access_token, creds.account_id,
                                       JNull, resp, codexFile))]
          /\ Continue(IF impl = "monitor"
                      THEN CodexOAuthFetcher_collect_usage(stats, FetchUsageApi(resp), now)
                      ELSE CodexCollector_collect_usage(stats, resp, now),
                      creds)
    /\ UNCHANGED <<config, app, impl, now, claudeFile, codexFile, ledger>>

\* "Load token stats from local session files" of CodexOAuthFetcher.collect
CodexOAuthFetcher_collect_scan(s, sessions, t) ==
    LET local_stats == CodexOAuthFetcher_load_local_cost_stats(sessions, t)
    IN  [s EXCEPT !.cost_today_tokens = local_stats[1],
                  !.cost_30_days_tokens = local_stats[2]]

CodexScan ==
    /\ pc = "scan"
    /\ cur = "codex"
    /\ Return(IF impl = "monitor"
              THEN CodexOAuthFetcher_collect_scan(stats, ledger.sessions, now)
              ELSE CodexCollector_load_cost_stats(stats, ledger.sessions, now))
    /\ UNCHANGED <<config, app, impl, now, claudeFile, codexFile, ledger, net>>

Next ==
    \/ StartCycle
    \/ ClaudeLoad
    \/ ClaudeFetch
    \/ ClaudeScan
    \/ CodexLoad
    \/ CodexRefresh
    \/ CodexFetch
    \/ CodexScan

Spec == Init /\ [][Next]_vars

\* the poll cycle over every ledger, with credentials that load: the second
\* provider's file holds an API key, or (with the ledger of Init) OAuth tokens
\* that are due for a refresh
LedgerInit ==
    /\ impl \in {"monitor", "backend"}
    /\ now = T0
    /\ claudeFile = ClaudeJson(ClaudeCredsObj(Str("tokA"), JAbsent, JAbsent))
    /\ \/ /\ codexFile = CodexJson(AuthData(Str("sk-key"), JNull, JAbsent, JAbsent))
          /\ ledger \in LedgerCases
       \/ /\ codexFile = CodexJson(AuthData(JNull,
                             Tokens(Str("tokB"), Str("refB"), JNull, JNull, JAbsent),
                             Iso(T0 - 9 * Day, TRUE, 0), Str("keep")))
          /\ ledger \in Ledgers
    /\ providers = [p \in Providers |-> NoSnapshot]
    /\ pc = "idle"
    /\ cur = "none"
    /\ stats = NoSnapshot
    /\ creds = NoCreds
    /\ net = [p \in Providers |-> <<>>]
    /\ produced = {}
    /\ outcome = "none"
    /\ config = NoConfig
    /\ app = MainCall

LedgerSpec == LedgerInit /\ [][Next]_vars

-----------------------------------------------------------------------------
(* The tray application: AIUsageMonitorApp and the GTK main loop.  run()   *)
(* makes the first poll, creates the indicator menu, starts the refresh    *)
(* timer and enters Gtk.main(); from then on every handler (the timer's,   *)
(* the menu's, the window's) is run by the main loop, one at a time, on    *)
(* the one thread the program has.  An event that arrives while a handler  *)
(* runs waits in app.pending.  Time passes between polls; app.last is the  *)
(* poll made last, app.last_post the refresh POST made last.               *)

MaxPolls == 3
MaxNow == T0 + 14 * Day

\* the answers of the servers while the application runs
AppClaudeResponses(t) ==
    { HttpOk(JList(1)),
      HttpOk(Obj([five_hour |-> ClaudeWindow(Num(10), Iso(t + Hour, TRUE, 0)),
                  seven_day |-> ClaudeWindow(Num(50), Iso(t + Day, TRUE, 0))])) }

AppCodexResponses(t) ==
    { HttpError(500),
      HttpOk(CodexBody(Str("plus"),
                Obj([primary_window |-> CodexWindow(Num(10), Num(t + Hour), JAbsent),
                     secondary_window |-> CodexWindow(Num(50), Num(t + Day), JAbsent)]))) }

AppRefreshResponses ==
    { NetError, HttpOk(EmptyObj),
      HttpOk(Obj([access_token |-> Str("tokNew"), refresh_token |-> Str("refNew"),
                  id_token |-> JAbsent])) }

\* the values of chatgpt_base_url
BaseUrls ==
    { <<>>,
      <<"https://", "chatgpt.com", "/backend-api", "/">>,
      <<"https://", "chatgpt.com", "/">>,
      <<"https://", "chat.openai.com">>,
      <<"http://", "chatgpt.com", "/backend-api">>,
      <<"http://", "chatgpt.com">>,
      <<"https://", "chatgpt.com", ".example.org">>,
      <<"https://", "proxy.example.org", "/v1">>,
      <<"https://", "proxy.example.org", "/backend-api">> }

Configs == { NoConfig, ConfigToml(FALSE, <<>>) } \cup { ConfigToml(TRUE, u) : u \in BaseUrls }

\* the auth file of the application's runs: OAuth tokens last refreshed 9
\* days ago
AppCodexFile ==
    CodexJson(AuthData(JNull, Tokens(Str("tokB"), Str("refB"), JNull, JNull, JAbsent),
                       Iso(T0 - 9 * Day, TRUE, 0), Str("keep")))

\* run() is about to make the first poll
AppInit ==
    /\ impl = "monitor"
    /\ now = T0
    /\ claudeFile = ClaudeJson(ClaudeCredsObj(Str("tokA"), JAbsent, JAbsent))
    /\ ledger = SomeLedger
    /\ codexFile = AppCodexFile
    /\ config = NoConfig
    /\ providers = [p \in Providers |-> NoSnapshot]
    /\ pc = "idle"
    /\ cur = "none"
    /\ stats = NoSnapshot
    /\ creds = NoCreds
    /\ net = [p \in Providers |-> <<>>]
    /\ produced = {}
    /\ outcome = "none"
    /\ app = MainCall

\* a loop that runs the handler of a pending event at once, whatever else
\* is running
MainLoopReentrant == TRUE

\* Gtk.main() is between two handlers
MainLoopIdle == app.callback = "none"

\* the last call of provider p
LastCall(calls, p) == calls[p][Len(calls[p])]

AppClaudeFetch ==
    /\ ClaudeFetch
    /\ LastCall(net', "claude").resp \in AppClaudeResponses(now)

AppCodexRefresh ==
    /\ CodexRefresh
    /\ LastCall(net', "codex").resp \in AppRefreshResponses

AppCodexFetch ==
    /\ CodexFetch
    /\ LastCall(net', "codex").resp \in AppCodexResponses(now)

\* the refresh interval has elapsed: the timer's source is ready
TimerElapses ==
    /\ app.refresh_timeout_id = "armed"
    /\ ~app.quit
    /\ "timer" \notin app.pending
    /\ app' = [app EXCEPT !.pending = @ \cup {"timer"}]
    /\ UNCHANGED <<impl, now, claudeFile, codexFile, ledger, providers, pc, cur, stats,
                   creds, net, produced, outcome, config>>

\* the user picks "Refresh" in the indicator menu
RefreshRequested ==
    /\ app.indicator
    /\ ~app.quit
    /\ "refresh" \notin app.pending
    /\ app' = [app EXCEPT !.pending = @ \cup {"refresh"}]
    /\ UNCHANGED <<impl, now, claudeFile, codexFile, ledger, providers, pc, cur, stats,
                   creds, net, produced, outcome, config>>

\* time passes while the main loop waits, once between two polls
Tick ==
    /\ MainLoopIdle
    /\ ~app.quit
    /\ app.polls < MaxPolls
    /\ app.last.at = now
    /\ \E dt \in {Hour, EightDays} :
          /\ now + dt <= MaxNow
          /\ now' = now + dt
    /\ UNCHANGED <<impl, claudeFile, codexFile, ledger, providers, pc, cur, stats,
                   creds, net, produced, outcome, config, app>>

\* the main loop calls the handler of event e, which calls refresh_stats
Dispatch(e) ==
    /\ MainLoopIdle
    /\ ~app.quit
    /\ e \in app.pending
    /\ app.polls < MaxPolls
    /\ app' = [app EXCEPT !.callback = e, !.pending = @ \ {e}, !.active = @ + 1]
    /\ net' = [p \in Providers |-> <<>>]
    /\ produced' = {}
    /\ outcome' = "none"
    /\ UNCHANGED <<impl, now, claudeFile, codexFile, ledger, providers, pc, cur, stats,
                   creds, config>>

\* _on_refresh_timeout
OnRefreshTimeout ==
    /\ app.refresh_timeout_id = "armed"
    /\ Dispatch("timer")

\* the "activate" handler of the menu's Refresh item
OnRefreshActivate ==
    /\ app.indicator
    /\ Dispatch("refresh")

\* _update_indicator_menu raises: a connected entry whose percentages cannot
\* be formatted with ":.0f"
MenuRaises ==
    \E p \in Providers :
        /\ providers[p].t = "snapshot"
        /\ providers[p].is_connected
        /\ ~IsNum(providers[p].session_used_pct) \/ ~IsNum(providers[p].weekly_used_pct)

\* the end of refresh_stats and of the handler that called it: the menu is
\* rebuilt from self.providers; run() goes on to start the timer and to enter
\* the main loop, and ends the process when the first poll raised; a timer
\* handler that raised has returned no True, and its source may be removed
RefreshStatsDone ==
    /\ app.callback # "none"
    /\ outcome \in {"completed", "aborted"}
    /\ LET raised == outcome = "aborted" \/ (app.indicator /\ MenuRaises)
           post == IF \E i \in DOMAIN net["codex"] : net["codex"][i].op = "POST"
                   THEN Post(now, net["codex"][1].resp)
                   ELSE NoPost
           done == [app EXCEPT !.callback = "none", !.active = @ - 1,
                               !.polls = @ + 1,
                               !.last = [at |-> now, post |-> post, outcome |-> outcome],
                               !.last_post = IF post = NoPost THEN @ ELSE post]
       IN  CASE app.callback = "run" ->
                    IF outcome = "aborted" \/ MenuRaises
                    THEN app' = [done EXCEPT !.quit = TRUE]
                    ELSE app' = [done EXCEPT !.indicator = TRUE, !.menu = providers,
                                             !.refresh_timeout_id = "armed"]
              [] app.callback = "timer" ->
                    IF raised
                    THEN \E id \in {"armed", "removed"} :
                             app' = [done EXCEPT !.refresh_timeout_id = id]
                    ELSE app' = [done EXCEPT !.menu = providers]
              [] OTHER ->
                    IF raised
                    THEN app' = done
                    ELSE app' = [done EXCEPT !.menu = providers]
    /\ UNCHANGED <<impl, now, claudeFile, codexFile, ledger, providers, pc, cur, stats,
                   creds, net, produced, outcome, config>>

\* _show_window: the user picks "Show Details..."
ShowWindow ==
    /\ MainLoopIdle
    /\ ~app.quit
    /\ app.indicator
    /\ app.window # "visible"
    /\ app' = [app EXCEPT !.window = "visible"]
    /\ UNCHANGED <<impl, now, claudeFile, codexFile, ledger, providers, pc, cur, stats,
                   creds, net, produced, outcome, config>>

\* _on_focus_out: the popup loses the focus, is hidden and destroyed
OnFocusOut ==
    /\ MainLoopIdle
    /\ ~app.quit
    /\ app.window = "visible"
    /\ app' = [app EXCEPT !.window = "destroyed"]
    /\ UNCHANGED <<impl, now, claudeFile, codexFile, ledger, providers, pc, cur, stats,
                   creds, net, produced, outcome, config>>

\* _quit: the timer's source is removed and the main loop ends
Quit ==
    /\ MainLoopIdle
    /\ ~app.quit
    /\ app.indicator
    /\ app' = [app EXCEPT !.quit = TRUE,
                          !.refresh_timeout_id = IF @ = "armed" THEN "removed" ELSE @]
    /\ UNCHANGED <<impl, now, claudeFile, codexFile, ledger, providers, pc, cur, stats,
                   creds, net, produced, outcome, config>>

AppNext ==
    \/ StartCycle
    \/ ClaudeLoad
    \/ AppClaudeFetch
    \/ ClaudeScan
    \/ CodexLoad
    \/ AppCodexRefresh
    \/ AppCodexFetch
    \/ CodexScan
    \/ RefreshStatsDone
    \/ TimerElapses
    \/ RefreshRequested
    \/ Tick
    \/ OnRefreshTimeout
    \/ OnRefreshActivate
    \/ ShowWindow
    \/ OnFocusOut
    \/ Quit

AppSpec == AppInit /\ [][AppNext]_vars

\* one poll cycle of either program under every config.toml, with credentials
\* that load: an API key, or OAuth tokens that are due for a refresh
ConfigInit ==
    /\ impl \in {"monitor", "backend"}
    /\ now = T0
    /\ claudeFile = ClaudeJson(ClaudeCredsObj(Str("tokA"), JAbsent, JAbsent))
    /\ codexFile \in { CodexJson(AuthData(Str("sk-key"), JNull, JAbsent, JAbsent)),
                       AppCodexFile }
    /\ ledger = SomeLedger
    /\ providers = [p \in Providers |-> NoSnapshot]
    /\ pc = "idle"
    /\ cur = "none"
    /\ stats = NoSnapshot
    /\ creds = NoCreds
    /\ net = [p \in Providers |-> <<>>]
    /\ produced = {}
    /\ outcome = "none"
    /\ config \in Configs
    /\ app = MainCall

ConfigSpec == ConfigInit /\ [][Next]_vars

-----------------------------------------------------------------------------
(* What a poll cycle shows from outside *)

\* the loop over the collectors is over, by its end or by an exception
CycleEnded == outcome \in {"completed", "aborted"}

\* collect of provider p raised
Raised(p) ==
    \/ outcome = "aborted" /\ cur = p
    \/ p \in produced /\ ~providers[p].full

\* the pipeline of provider p failed at some step of this cycle
Failed(p) ==
    \/ Raised(p)
    \/ p \in produced /\ providers[p].error_message # ""

\* the usage request of provider p, when one was made
UsageCalls(p) == { i \in DOMAIN net[p] : net[p][i].op = "GET" }

\* the usage request of provider p was made and failed: a status other than
\* 200, an HTTP error status, a network error, or a body that is not JSON
FetchFailed(p) ==
    /\ p \in produced
    /\ \E i \in UsageCalls(p) : net[p][i].resp.kind # "ok"

\* the snapshot a fresh ledger scan of provider p fills in
LedgerScan(p) ==
    IF p = "claude"
    THEN IF impl = "monitor"
         THEN ClaudeOAuthFetcher_collect_scan(ProviderStats(p), ledger.cache, now)
         ELSE ClaudeCollector_load_cost_stats(ProviderStats(p), ledger.projects,
                                              ledger.cache, now)
    ELSE IF impl = "monitor"
         THEN CodexOAuthFetcher_collect_scan(ProviderStats(p), ledger.sessions, now)
         ELSE CodexCollector_load_cost_stats(ProviderStats(p), ledger.sessions, now)

-----------------------------------------------------------------------------
(* Claims *)

\* C1: in every poll cycle, when one provider's pipeline fails at any step
\* (credential load, refresh, usage fetch, normalisation, ledger scan), the
\* other provider's snapshot is still produced in that cycle, as a full
\* snapshot of its own.
C1_IsolatedProviders ==
    CycleEnded =>
        \A p \in Providers :
            Failed(p) =>
                \A q \in Providers \ {p} :
                    /\ q \in produced
                    /\ providers[q].t = "snapshot"
                    /\ providers[q].provider_id = q

\* C2: whatever the credential files hold and the servers answer, a poll
\* cycle ends with one snapshot stored for every provider, and no collect step
\* raises out of the cycle.
C2_SnapshotForEveryProvider ==
    CycleEnded =>
        /\ outcome = "completed"
        /\ produced = Providers
        /\ \A p \in Providers : providers[p].t = "snapshot"

\* C3: when a usable credential was loaded and the usage fetch then fails (a
\* status other than 200, an HTTP error status, a network error or timeout, a
\* body that is not JSON), the snapshot is connected with an error:
\* is_connected is true and error_message is not empty.
C3_ConnectedWithError ==
    \A p \in Providers :
        FetchFailed(p) =>
            /\ providers[p].is_connected
            /\ providers[p].error_message # ""

\* C4: when the credentials load but the usage fetch fails, the snapshot still
\* carries the token totals (and, for the first provider, the costs) of the
\* local ledger scan.
C4_LedgerAfterFailedFetch ==
    \A p \in Providers :
        FetchFailed(p) =>
            /\ providers[p].cost_today_tokens = LedgerScan(p).cost_today_tokens
            /\ providers[p].cost_30_days_tokens = LedgerScan(p).cost_30_days_tokens
            /\ providers[p].cost_today = LedgerScan(p).cost_today
            /\ providers[p].cost_30_days = LedgerScan(p).cost_30_days

\* the credential check of the first provider has run in this cycle
ClaudeLoaded == outcome # "none" /\ ~(pc = "load" /\ cur = "claude")

\* the credentials file holds an access token and a numeric expiresAt
HoldsExpiry ==
    /\ claudeFile.kind = "json"
    /\ IsObj(claudeFile.oauth)
    /\ Truthy(Get(claudeFile.oauth, "accessToken", JNull))
    /\ IsNum(Get(claudeFile.oauth, "expiresAt", JNull))

\* ... and that expiresAt (epoch milliseconds) is earlier than the current time
ExpiryPassed == HoldsExpiry /\ Get(claudeFile.oauth, "expiresAt", JNull).v < now * 1000

\* no file, an unreadable file, or no access token
NotAuthenticated ==
    \/ claudeFile.kind \in {"missing", "unreadable"}
    \/ /\ claudeFile.kind = "json"
       /\ claudeFile.oauth.t \in {"absent", "obj"}
       /\ ~Truthy(Get(ClaudeOAuthFetcher_load_credentials(claudeFile), "accessToken", JNull))

\* the credential load reported Expired
ReportedExpired ==
    /\ "claude" \in produced
    /\ providers["claude"].error_message = "Token expired"
    /\ ~providers["claude"].is_connected
    /\ net["claude"] = <<>>

\* C5 as stated: for the first provider, a credentials file holding an access
\* token and an expiresAt earlier than the current time makes the credential
\* load report Expired, with an error distinct from the NotAuthenticated one.
C5_ExpiredWhenPast ==
    ClaudeLoaded =>
        /\ ExpiryPassed => ReportedExpired
        /\ NotAuthenticated => ~ReportedExpired

\* C5 amended: for the first provider, a credentials file holding an access
\* token and a non-zero expiresAt earlier than the current time makes the
\* credential load report Expired, with an error distinct from the
\* NotAuthenticated one; an expiresAt of 0 stands for "no expiry recorded".
C5_ExpiredWhenPastAndNonZero ==
    ClaudeLoaded =>
        /\ (ExpiryPassed /\ Get(claudeFile.oauth, "expiresAt", JNull).v # 0) => ReportedExpired
        /\ NotAuthenticated => ~ReportedExpired

C5_Witness ==
    /\ ClaudeLoaded
    /\ ExpiryPassed
    /\ Get(claudeFile.oauth, "expiresAt", JNull).v # 0
    /\ ReportedExpired

\* the auth file holds a non-empty OPENAI_API_KEY and a populated
\* tokens.access_token
BothCredentials(file) ==
    /\ file.kind = "json"
    /\ IsObj(file.data)
    /\ IsStr(Get(file.data, "OPENAI_API_KEY", JNull))
    /\ Strip(Get(file.data, "OPENAI_API_KEY", JNull).v) # ""
    /\ IsObj(Get(file.data, "tokens", JNull))
    /\ Truthy(Get(Get(file.data, "tokens", JNull), "access_token", JNull))

\* C6: for the second provider, when the auth file holds both a non-empty
\* OPENAI_API_KEY and a populated tokens.access_token, the bearer token of the
\* usage request is the API key, and no refresh POST is issued for it.
C6_ApiKeyFirst ==
    \A i \in DOMAIN net["codex"] :
        BothCredentials(net["codex"][i].before) =>
            /\ net["codex"][i].op = "GET"
            /\ net["codex"][i].bearer =
                   Str(Strip(Get(net["codex"][i].before.data, "OPENAI_API_KEY", JNull).v))

\* the credential the auth file yields: the API key, else the token pair
LoadedCredential(file) == CodexOAuthFetcher_load_credentials(file)

\* a refresh is due: a non-empty refresh token, and the last successful refresh
\* unknown or more than 8 days before t
RefreshDue(file, t) ==
    LET c == LoadedCredential(file)
    IN  /\ c.t = "creds"
        /\ Truthy(c.refresh_token)
        /\ \/ c.last_refresh.t = "none"
           \/ t - Instant(c.last_refresh) > EightDays

\* C7: in a poll of the second provider the refresh POST is issued if and only
\* if the loaded credential has a non-empty refresh token and its last
\* successful refresh is unknown or more than 8 days old; without a refresh
\* token no refresh is attempted.
C7_RefreshIffDue ==
    UsageCalls("codex") # {} =>
        LET first == net["codex"][1]
        IN  (first.op = "POST") <=> RefreshDue(first.before, now)

\* the refresh failed: an HTTP error status, a network error, a body that is
\* not JSON, not an object, or without the token fields
RefreshFailed(resp) ==
    \/ resp.kind # "ok"
    \/ ~IsObj(resp.body)
    \/ ~HasKey(resp.body, "access_token")

\* C8: when a refresh is attempted and fails, the auth file is left exactly as
\* it was before the attempt, and the poll goes on to the usage request with
\* the old access token instead of ending in an error.
C8_FailedRefreshKeepsFile ==
    \A i \in DOMAIN net["codex"] :
        (net["codex"][i].op = "POST" /\ RefreshFailed(net["codex"][i].resp)) =>
            /\ codexFile = net["codex"][i].before
            /\ "codex" \in produced => i + 1 \in UsageCalls("codex")
            /\ i + 1 \in DOMAIN net["codex"] =>
                   net["codex"][i + 1].bearer =
                       LoadedCredential(net["codex"][i].before).access_token

\* the keys of a JSON object that hold a value
Keys(d) == { k \in DOMAIN d.f : d.f[k].t # "absent" }

\* C9: after a successful refresh the auth file holds the new access/refresh
\* token pair and the new refresh timestamp, and every other field that was in
\* the file before is still there with its previous value.
C9_ReadMergeWrite ==
    \A i \in DOMAIN net["codex"] :
        (net["codex"][i].op = "POST" /\ ~RefreshFailed(net["codex"][i].resp)) =>
            LET old == net["codex"][i].before.data
                new == codexFile.data
                body == net["codex"][i].resp.body
            IN  /\ new.f.tokens.f.access_token = body.f.access_token
                /\ new.f.tokens.f.refresh_token =
                       Get(body, "refresh_token", old.f.tokens.f.refresh_token)
                /\ new.f.last_refresh = Iso(now, TRUE, 0)
                /\ \A k \in Keys(old) \ {"tokens", "last_refresh"} :
                       HasKey(new, k) /\ new.f[k] = old.f[k]
                /\ \A k \in Keys(old.f.tokens) \ {"access_token", "refresh_token", "id_token"} :
                       HasKey(new.f.tokens, k) /\ new.f.tokens.f[k] = old.f.tokens.f[k]
                /\ HasKey(old.f.tokens, "id_token") =>
                       /\ HasKey(new.f.tokens, "id_token")
                       /\ new.f.tokens.f.id_token = Get(body, "id_token", old.f.tokens.f.id_token)

\* the weekly window of the usage response of provider p
WeeklyWindow(p) ==
    LET body == net[p][CHOOSE i \in UsageCalls(p) : TRUE].resp.body
    IN  IF p = "claude"
        THEN Get(body, "seven_day", JNull)
        ELSE Get(Get(body, "rate_limit", JNull), "secondary_window", JNull)

\* the used percentage, the reset time and the window duration the response
\* of provider p gives
UsedPct(p) == Get(WeeklyWindow(p), IF p = "claude" THEN "utilization" ELSE "used_percent", JNull)
ResetAt(p) ==
    IF p = "claude"
    THEN FromIso(Get(WeeklyWindow(p), "resets_at", JNull))
    ELSE Time(Get(WeeklyWindow(p), "reset_at", JNull).v, TRUE, 0)
WindowDuration(p) ==
    IF p = "claude"
    THEN SevenDays
    ELSE Get(WeeklyWindow(p), "limit_window_seconds", Num(SevenDays)).v

\* the usage response of provider p carries a used percentage u >= 0, a reset
\* time and a window duration W > 0
PaceInputs(p) ==
    /\ p \in produced
    /\ \E i \in UsageCalls(p) : net[p][i].resp.kind = "ok" /\ IsObj(net[p][i].resp.body)
    /\ p = "codex" => IsObj(Get(net[p][CHOOSE i \in UsageCalls(p) : TRUE].resp.body,
                                     "rate_limit", JNull))
    /\ IsObj(WeeklyWindow(p))
    /\ IsNum(UsedPct(p)) /\ UsedPct(p).v >= 0
    /\ IF p = "claude"
       THEN IsStr(Get(WeeklyWindow(p), "resets_at", JNull))
            /\ ResetAt(p).t = "time" /\ ResetAt(p).aware
       ELSE IsNum(Get(WeeklyWindow(p), "reset_at", JNull))
            /\ Get(WeeklyWindow(p), "reset_at", JNull).v > 0
    /\ p = "codex" =>
           /\ IsNum(Get(WeeklyWindow(p), "limit_window_seconds", Num(SevenDays)))
           /\ WindowDuration(p) > 0

\* C10: for every used percentage u >= 0, every present reset time r, window
\* duration W > 0 and current time, the pace delta of the snapshot is
\* u - ((now - (r - W)) / W * 100), and the classification is Behind iff the
\* delta is negative, Ahead iff positive, On track iff exactly 0; W is 7 days
\* for the first provider and limit_window_seconds (7 days when absent) for
\* the second.
C10_PaceFormula ==
    \A p \in Providers :
        PaceInputs(p) =>
            LET delta == <<UsedPct(p).v * WindowDuration(p)
                             - (now - (Instant(ResetAt(p)) - WindowDuration(p))) * 100,
                           WindowDuration(p)>>
            IN  /\ impl = "monitor" => providers[p].pace_percentage = delta
                /\ providers[p].pace_status =
                       (IF delta[1] < 0 THEN "Behind"
                        ELSE IF delta[1] > 0 THEN "Ahead" ELSE "On track")

\* the usage request of provider p returned 200 with a JSON object
FetchOk(p) ==
    /\ p \in produced
    /\ \E i \in UsageCalls(p) : net[p][i].resp.kind = "ok" /\ IsObj(net[p][i].resp.body)

\* the aggregate window of the response of provider p is an object with a
\* used percentage and no reset timestamp
NoResetTime(p) ==
    /\ FetchOk(p)
    /\ p = "codex" => IsObj(Get(net[p][CHOOSE i \in UsageCalls(p) : TRUE].resp.body,
                                     "rate_limit", JNull))
    /\ IsObj(WeeklyWindow(p))
    /\ IsNum(UsedPct(p))
    /\ ~HasKey(WeeklyWindow(p), IF p = "claude" THEN "resets_at" ELSE "reset_at")

\* C11: when the aggregate window has no reset timestamp, the snapshot is
\* produced (nothing is raised) and its pace is a result other than Behind,
\* On track and Ahead.
C11_PaceUnavailable ==
    \A p \in Providers :
        NoResetTime(p) =>
            /\ providers[p].full
            /\ providers[p].pace_status \notin {"Behind", "On track", "Ahead"}

\* the ledger scan of provider p ran in this cycle and its snapshot was
\* produced: the backend scans after every usage request, the monitor after a
\* request that returned data
ScanRan(p) ==
    /\ p \in produced
    /\ providers[p].full
    /\ \E i \in UsageCalls(p) :
          impl = "monitor" => Truthy(FetchUsageApi(net[p][i].resp))

\* line is a record of type event_msg whose payload.type is token_count
IsTokenCount(line) ==
    /\ IsObj(line)
    /\ StrEq(Get(line, "type", JNull), "event_msg")
    /\ IsObj(Get(line, "payload", JNull))
    /\ StrEq(Get(Get(line, "payload", JNull), "type", JNull), "token_count")

\* the output_tokens such a record carries
OutputTokens(line) ==
    LET info == Get(Get(line, "payload", JNull), "info", JNull)
        usg == IF IsObj(info) THEN Get(info, "total_token_usage", JNull) ELSE JNull
    IN  IF IsObj(usg) THEN Get(usg, "output_tokens", Num(0)) ELSE Num(0)

\* the output_tokens of the last token_count record of a file, 0 without one
LastTokenCount(lines) ==
    LET S == { i \in 1..Len(lines) : IsTokenCount(lines[i]) }
    IN  IF S = {}
        THEN Num(0)
        ELSE OutputTokens(lines[CHOOSE i \in S : \A j \in S : j <= i])

\* two JSON scalars are the same value
SameValue(a, b) == a.t = b.t /\ (a.t = "num" => a.v = b.v)

\* C12: for every second-provider session file, the scanned token value is the
\* output_tokens of the last line whose type is event_msg and whose
\* payload.type is token_count, 0 when the file has no such line (the files
\* scanned are those of the directories the walk does not skip).
C12_LastTokenCount ==
    ScanRan("codex") /\ ledger.sessions.exists =>
        \A k \in DOMAIN ledger.sessions.files :
            ledger.sessions.files[k].day >= Today(now) - ThirtyDays =>
            SameValue(GetSessionTokens(ledger.sessions.files[k].lines, 1, Num(0)),
                      LastTokenCount(ledger.sessions.files[k].lines))

\* the session files of directories dated from lo to hi
DatedWithin(files, lo, hi) ==
    { k \in DOMAIN files : lo <= files[k].day /\ files[k].day <= hi }

\* the sum of the final output-token counts of the files K
RECURSIVE FinalTokensSum(_, _)
FinalTokensSum(files, K) ==
    IF K = {}
    THEN 0
    ELSE LET k == CHOOSE x \in K : TRUE
         IN  LastTokenCount(files[k].lines).v + FinalTokensSum(files, K \ {k})

\* the final output-token count of every file of the last 30 days is a number
FinalCountsAreNumbers ==
    \A k \in DatedWithin(ledger.sessions.files, Today(now) - ThirtyDays, Today(now)) :
        IsNum(LastTokenCount(ledger.sessions.files[k].lines))

\* C13: the second provider's scan returns trailing30Tokens equal to the sum,
\* over the session files of directories dated within the last 30 days, of the
\* session's final output-token count, and todayTokens equal to the same sum
\* over the directories dated today; older directories contribute to neither.
C13_WindowTotals ==
    ScanRan("codex") /\ ledger.sessions.exists /\ FinalCountsAreNumbers =>
        /\ providers["codex"].cost_30_days_tokens =
               FinalTokensSum(ledger.sessions.files,
                   DatedWithin(ledger.sessions.files, Today(now) - ThirtyDays, Today(now)))
        /\ providers["codex"].cost_today_tokens =
               FinalTokensSum(ledger.sessions.files,
                   DatedWithin(ledger.sessions.files, Today(now), Today(now)))

\* the session files of the second provider that the walk reads
ScannedSessions ==
    { k \in DOMAIN ledger.sessions.files :
        ledger.sessions.files[k].day >= Today(now) - ThirtyDays }

\* the session logs of the first provider that the backend reads
ScannedProjects ==
    { k \in DOMAIN ledger.projects.files :
        /\ ledger.projects.files[k].statOk
        /\ ledger.projects.files[k].readable
        /\ ledger.projects.files[k].mday >= Today(now) - ThirtyDays }

\* C14: within a session file, a line that is not valid JSON or whose record
\* is not of the expected shape is skipped: the file's token value is the one
\* of the file without those lines, for the scanners of both providers.
C14_BadLinesSkipped ==
    /\ ScanRan("codex") /\ ledger.sessions.exists =>
           \A k \in ScannedSessions :
               SameValue(GetSessionTokens(ledger.sessions.files[k].lines, 1, Num(0)),
                         GetSessionTokens(SelectSeq(ledger.sessions.files[k].lines, IsObj),
                                          1, Num(0)))
    /\ impl = "backend" /\ ScanRan("claude") /\ ledger.projects.exists =>
           \A k \in ScannedProjects :
               /\ ~ClaudeSessionOutput(ledger.projects.files[k].lines, 1).raised
               /\ ClaudeSessionOutput(ledger.projects.files[k].lines, 1).out =
                      ClaudeSessionOutput(SelectSeq(ledger.projects.files[k].lines, IsObj),
                                          1).out

\* session k of the second provider cannot be added to the totals: its scanned
\* value is not a number
BadSession(k) ==
    ~IsNum(GetSessionTokens(ledger.sessions.files[k].lines, 1, Num(0)))

\* the sum of the scanned values of the files K
RECURSIVE ScannedTokensSum(_, _)
ScannedTokensSum(files, K) ==
    IF K = {}
    THEN 0
    ELSE LET k == CHOOSE x \in K : TRUE
         IN  GetSessionTokens(files[k].lines, 1, Num(0)).v + ScannedTokensSum(files, K \ {k})

\* C15: a single malformed session file (one whose final token_count record
\* has an output_tokens that is null) does not abort the scan: the today and
\* trailing-30-day totals are the sums over all the other scanned files,
\* whatever position the bad file has in the scan order.
C15_BadFileIsolated ==
    ScanRan("codex") /\ ledger.sessions.exists =>
        \A b \in ScannedSessions :
            BadSession(b) =>
                /\ providers["codex"].cost_30_days_tokens =
                       ScannedTokensSum(ledger.sessions.files, ScannedSessions \ {b})
                /\ providers["codex"].cost_today_tokens =
                       ScannedTokensSum(ledger.sessions.files,
                           { k \in ScannedSessions \ {b} :
                               ledger.sessions.files[k].day = Today(now) })

\* the ledger root of provider p does not exist: the sessions directory of the
\* second provider, the session-log directory and the statistics file of the
\* first
RootMissing(p) ==
    IF p = "claude"
    THEN ledger.cache.kind = "missing" /\ ~ledger.projects.exists
    ELSE ~ledger.sessions.exists

\* C16: when a provider's ledger root does not exist, the scan raises nothing
\* (the snapshot is produced by the scan step) and returns todayTokens =
\* trailing30Tokens = 0 and todayCost = trailing30Cost = 0.
C16_MissingRootScansZero ==
    [][\A p \in Providers :
          pc = "scan" /\ cur = p /\ RootMissing(p) =>
              /\ p \in produced'
              /\ providers'[p].full
              /\ providers'[p].cost_today_tokens = 0
              /\ providers'[p].cost_30_days_tokens = 0
              /\ providers'[p].cost_today = 0
              /\ providers'[p].cost_30_days = 0]_vars

\* the scan of each provider ran over a missing root, while the other
\* provider's root exists
C16_Witness ==
    /\ CycleEnded
    /\ \E p \in Providers : ScanRan(p) /\ RootMissing(p)
    /\ \E q \in Providers : ScanRan(q) /\ ~RootMissing(q)

\* dollars per million tokens, times 100: the price table and the default row
PriceTable ==
    [m \in {"claude-opus-4-5-20251101", "claude-sonnet-4-5-20250929"} |->
        IF m = "claude-opus-4-5-20251101"
        THEN <<1500, 7500, 150, 1875>>
        ELSE <<300, 1500, 30, 375>>]
DefaultRow == <<300, 1500, 30, 375>>

\* the tokens of one category in a usage object, 0 when it has none
Category(u, key) == IF HasKey(u, key) THEN u.f[key].v ELSE 0

\* the cost of the models K of the mapping mu, in units of 10^-8 dollars
RECURSIVE ListedModelsCost(_, _)
ListedModelsCost(mu, K) ==
    IF K = {}
    THEN 0
    ELSE LET k == CHOOSE x \in K : TRUE
             row == IF mu[k].model \in DOMAIN PriceTable
                    THEN PriceTable[mu[k].model] ELSE DefaultRow
         IN  Category(mu[k].usage, "inputTokens") * row[1]
             + Category(mu[k].usage, "outputTokens") * row[2]
             + Category(mu[k].usage, "cacheReadInputTokens") * row[3]
             + Category(mu[k].usage, "cacheCreationInputTokens") * row[4]
             + ListedModelsCost(mu, K \ {k})

\* the statistics file was read by the scan of the first provider, and every
\* model of its modelUsage mapping has a usage object
ModelUsageScanned ==
    /\ ScanRan("claude")
    /\ ledger.cache.kind = "json"
    /\ \A k \in DOMAIN ledger.cache.modelUsage : IsObj(ledger.cache.modelUsage[k].usage)

\* C17: for every modelUsage mapping of the statistics file, the
\* trailing-30-day cost is the sum over the listed models of inputTokens,
\* outputTokens, cacheReadInputTokens and cacheCreationInputTokens, each
\* divided by 1,000,000 and multiplied by the model's rate for the category,
\* a model id absent from the price table being priced with the default row.
C17_ModelUsageCost ==
    ModelUsageScanned =>
        providers["claude"].cost_30_days =
            ListedModelsCost(ledger.cache.modelUsage, DOMAIN ledger.cache.modelUsage)

\* a mapping with a model of the price table and one absent from it was priced
C17_Witness ==
    /\ ModelUsageScanned
    /\ \E k \in DOMAIN ledger.cache.modelUsage :
          ledger.cache.modelUsage[k].model \in DOMAIN PriceTable
    /\ \E k \in DOMAIN ledger.cache.modelUsage :
          /\ ledger.cache.modelUsage[k].model \notin DOMAIN PriceTable
          /\ Category(ledger.cache.modelUsage[k].usage, "cacheCreationInputTokens") > 0
    /\ providers["claude"].cost_30_days > 0

\* C18: the first provider's today cost in every snapshot is todayTokens /
\* 1,000,000 * 5 for the todayTokens of that same snapshot, whatever the price
\* table and the modelUsage contents.
C18_TodayCostFlatRate ==
    "claude" \in produced /\ providers["claude"].full =>
        providers["claude"].cost_today = providers["claude"].cost_today_tokens * 500

\* the body of the usage response of provider p
UsageBody(p) == net[p][CHOOSE i \in UsageCalls(p) : TRUE].resp.body

\* a window of a usage response is absent or empty, or an object whose reset
\* time, when it has one, is of the type the provider sends
WindowShape(p, w) ==
    \/ ~Truthy(w)
    \/ /\ IsObj(w)
       /\ p = "codex" => \/ ~Truthy(Get(w, "reset_at", JNull))
                         \/ IsNum(Get(w, "reset_at", JNull))

\* the usage request of provider p returned 200 with a non-empty JSON object
\* of the expected shape
UsageRead(p) ==
    /\ FetchOk(p)
    /\ Truthy(UsageBody(p))
    /\ IF p = "claude"
       THEN /\ WindowShape(p, Get(UsageBody(p), "five_hour", JAbsent))
            /\ WindowShape(p, Get(UsageBody(p), "seven_day", JAbsent))
       ELSE /\ IsStr(Get(UsageBody(p), "plan_type", Str("")))
            /\ IsObj(Get(UsageBody(p), "rate_limit", EmptyObj))
            /\ WindowShape(p, Get(Get(UsageBody(p), "rate_limit", EmptyObj),
                                  "primary_window", JAbsent))
            /\ WindowShape(p, Get(Get(UsageBody(p), "rate_limit", EmptyObj),
                                  "secondary_window", JAbsent))

UsageMissing(p) ==
    \A i \in UsageCalls(p) :
        ~(net[p][i].resp.kind = "ok" /\ IsObj(net[p][i].resp.body)
          /\ Truthy(net[p][i].resp.body))

\* C20: every snapshot that is not fully connected carries a non-empty
\* error_message; no snapshot has its usage data missing and its
\* error_message empty.
C20_ErrorWhenNotConnected ==
    \A p \in Providers :
        p \in produced /\ (~providers[p].is_connected \/ UsageMissing(p)) =>
            providers[p].error_message # ""

-----------------------------------------------------------------------------
(* Command line *)

\* the modes of a command-line run: "--status" of the monitor, the text and
\* the "--json" output of the backend
CliModes == IF impl = "monitor" THEN {"status"} ELSE {"text", "json"}

\* printing the entry of a connected provider formats its two percentages as
\* numbers ("{...:5.1f}", "{...:.1f}"): TypeError or ValueError otherwise
PrintRaises(s) ==
    /\ s.is_connected
    /\ ~IsNum(s.session_used_pct) \/ ~IsNum(s.weekly_used_pct)

\* the exit code of a run in the given mode once the loop over the collectors
\* is over: an exception that leaves print_cli_status or main ends the
\* process with code 1, "return 0" is reached otherwise
ExitCode(mode) ==
    IF mode = "json"
    THEN 0
    ELSE IF outcome = "aborted" \/ \E p \in produced : PrintRaises(providers[p])
    THEN 1
    ELSE 0

\* C21: a command-line run completes with exit code 0 for every combination
\* of per-provider connectivity outcomes, each failure being reported inside
\* that provider's output entry.
C21_ExitZero ==
    CycleEnded => \A mode \in CliModes : ExitCode(mode) = 0

\* the auth file of the second provider holds no credential: no file, an
\* unreadable file, or neither an API key nor an access token
CodexNotAuthenticated ==
    \/ codexFile.kind \in {"missing", "unreadable"}
    \/ /\ codexFile.kind = "json"
       /\ IsObj(codexFile.data)
       /\ ~Truthy(Get(codexFile.data, "OPENAI_API_KEY", JNull))
       /\ LET tokens == Get(codexFile.data, "tokens", EmptyObj)
          IN  IsObj(tokens) /\ ~Truthy(Get(tokens, "access_token", JNull))

\* the order of a poll's steps as its calls show it: at most one refresh POST
\* followed by at most one usage GET made with a credential; the GET that
\* follows a successful refresh is made with the refreshed token and after the
\* file was rewritten; no call at all when the credential load found none
PipelineInOrder(claudeNoCredential) ==
    \A p \in Providers :
        LET calls == net[p]
        IN  /\ Len(calls) <= 2
            /\ \A i \in DOMAIN calls :
                  /\ calls[i].op = "GET" => i = Len(calls) /\ Truthy(calls[i].bearer)
                  /\ calls[i].op = "POST" => p = "codex" /\ i = 1
            /\ Len(calls) = 2 =>
                  /\ calls[2].op = "GET"
                  /\ calls[2].before = codexFile
                  /\ ~RefreshFailed(calls[1].resp) =>
                         calls[2].bearer = calls[1].resp.body.f.access_token
            /\ p = "claude" /\ claudeNoCredential => calls = <<>>
            /\ p = "codex" /\ CodexNotAuthenticated => calls = <<>>
            /\ cur = p /\ pc = "refresh" => calls = <<>>
            /\ cur = p /\ pc = "fetch" => UsageCalls(p) = {}
            /\ cur = p /\ pc = "scan" => UsageCalls(p) # {}

\* C22 as stated: within one provider's poll the steps run in the order
\* credential load, refresh, usage fetch, ledger scan: the calls of a poll are
\* at most one refresh POST followed by at most one usage GET; no GET is issued
\* without a loaded credential, none at all when the provider is not
\* authenticated or the token's expiry has passed; and the GET that follows a
\* successful refresh is made with the refreshed token, so the POST has
\* completed before it starts.
C22_SequentialPipeline ==
    PipelineInOrder(NotAuthenticated \/ ExpiryPassed)

\* C22 amended: the same order of steps, with no GET at all when the provider
\* is not authenticated or a non-zero expiry of the token has passed (an
\* expiresAt of 0 is no expiry: the poll goes on to the usage GET).
C22_SequentialPipelineNonZeroExpiry ==
    PipelineInOrder(NotAuthenticated
                      \/ (ExpiryPassed /\ Get(claudeFile.oauth, "expiresAt", JNull).v # 0))

\* a poll of the second provider refreshed its token and then fetched the
\* usage with the new one
C22_Witness ==
    /\ "codex" \in produced
    /\ Len(net["codex"]) = 2
    /\ ~RefreshFailed(net["codex"][1].resp)
    /\ net["codex"][2].bearer # net["codex"][1].bearer
    /\ net["codex"][2].bearer # LoadedCredential(net["codex"][1].before).access_token

\* the session logs of the first provider whose modification day is from lo to
\* hi
ModifiedWithin(files, lo, hi) ==
    { k \in DOMAIN files :
        /\ files[k].statOk /\ files[k].readable
        /\ lo <= files[k].mday /\ files[k].mday <= hi }

\* the sum, over the logs K, of the output tokens of their records
RECURSIVE OutputTokensSum(_, _)
OutputTokensSum(files, K) ==
    IF K = {}
    THEN 0
    ELSE LET k == CHOOSE x \in K : TRUE
         IN  ClaudeSessionOutput(SelectSeq(files[k].lines, IsObj), 1).out
                 + OutputTokensSum(files, K \ {k})

\* C27: the first provider's scan assigns each session log's output tokens
\* (the sum of message.usage.output_tokens over its records) to the day of the
\* file's modification time: the today total is the sum over the logs modified
\* today, the trailing-30-day total the sum over the logs modified within the
\* last 30 days, today included; older logs count for neither.
C27_TokensByMtime ==
    ScanRan("claude") /\ ledger.projects.exists =>
        /\ providers["claude"].cost_today_tokens =
               OutputTokensSum(ledger.projects.files,
                   ModifiedWithin(ledger.projects.files, Today(now), Today(now)))
        /\ providers["claude"].cost_30_days_tokens =
               OutputTokensSum(ledger.projects.files,
                   ModifiedWithin(ledger.projects.files, Today(now) - ThirtyDays, Today(now)))

\* C30: in every snapshot of either provider, the ledger's token counts being
\* non-negative, the token total of today is at most the token total of the
\* trailing 30 days.
C30_TodayWithinThirty ==
    \A p \in produced :
        providers[p].full =>
            providers[p].cost_today_tokens <= providers[p].cost_30_days_tokens

\* the scan of the second provider counted sessions of today and of earlier
\* days
C30_Witness ==
    /\ ScanRan("codex")
    /\ 0 < providers["codex"].cost_today_tokens
    /\ providers["codex"].cost_today_tokens < providers["codex"].cost_30_days_tokens

\* C23: under any interleaving of timer firings and user refresh requests,
\* at most one poll is active at any time: a poll runs inside exactly one
\* call of refresh_stats, and no second call starts before it has ended.
C23_OnePollAtATime ==
    /\ app.active <= 1
    /\ outcome = "running" => app.active = 1 /\ app.callback # "none"
    /\ app.callback = "none" => app.active = 0 /\ pc = "idle"

\* a timer firing and a refresh request are both waiting while the poll that
\* an earlier timer firing started is fetching
C23_Witness ==
    /\ app.callback = "timer"
    /\ outcome = "running"
    /\ pc = "fetch"
    /\ app.pending = {"timer", "refresh"}

\* a network call of the running poll is outstanding: the refresh POST or the
\* usage GET was sent and has not returned
OutstandingCall == outcome = "running" /\ pc \in {"refresh", "fetch"}

\* C24: while a provider's network call is outstanding, the UI thread remains
\* able to process UI events: the call is never made inside a handler that the
\* main loop is running.
C24_NetworkOffUiThread ==
    OutstandingCall => app.callback \notin {"timer", "refresh"}

\* C26: once the popup window is no longer visible or the application is
\* quitting, no further poll is scheduled, so no poll starts after that point.
C26_NoPollAfterClose ==
    [][ (outcome # "running" /\ outcome' = "running") =>
            (app.window # "destroyed" /\ ~app.quit) ]_vars

\* the snapshot that the poll in progress builds for provider p, computed
\* from a new ProviderStats and from what this poll read and received: the
\* credentials file (the auth file as it was before the poll's first call, or
\* as it is when the poll made none), the answer to the usage GET in the
\* poll's calls, the ledger, the clock
BuiltInPoll(p, calls, file) ==
    IF p = "claude"
    THEN LET r1 == ClaudeOAuthFetcher_collect_creds(ProviderStats("claude"), claudeFile, now)
             r2 == ClaudeOAuthFetcher_collect_usage(r1.stats,
                       FetchUsageApi(LastCall(calls, "claude").resp), now)
         IN  IF r1.next = "return" THEN r1.stats
             ELSE IF r2.next = "return" THEN r2.stats
             ELSE ClaudeOAuthFetcher_collect_scan(r2.stats, ledger.cache, now)
    ELSE LET before == IF calls["codex"] = <<>> THEN file ELSE calls["codex"][1].before
             r1 == CodexOAuthFetcher_collect_creds(ProviderStats("codex"), before, now)
             r2 == CodexOAuthFetcher_collect_usage(r1.stats,
                       FetchUsageApi(LastCall(calls, "codex").resp), now)
         IN  IF r1.next = "return" THEN r1.stats
             ELSE IF r2.next = "return" THEN r2.stats
             ELSE CodexOAuthFetcher_collect_scan(r2.stats, ledger.sessions, now)

\* C25: a provider's entry in the snapshot mapping is replaced by one
\* assignment, made once in a poll by that provider's collector, of a snapshot
\* built fresh in that poll: every field of the new entry is the one this
\* poll computed from a new snapshot, none is a value of the entry it
\* replaces.  The readers of the mapping (the menu, the popup) run between
\* handlers or at the end of refresh_stats, after the assignment.
C25_WholeSnapshotAssigned ==
    [][ \A p \in Providers :
            providers'[p] # providers[p] =>
                /\ cur = p
                /\ p \notin produced
                /\ produced' = produced \cup {p}
                /\ providers'[p] = BuiltInPoll(p, net', codexFile') ]_vars

\* a later poll has replaced the entry that the menu was built from by a
\* different one
C25_Witness ==
    /\ app.polls >= 1
    /\ app.indicator
    /\ "codex" \in produced
    /\ app.menu["codex"].t = "snapshot"
    /\ providers["codex"] # app.menu["codex"]

\* the poll in progress has issued a refresh POST
PostNow == \E i \in DOMAIN net["codex"] : net["codex"][i].op = "POST"

\* the poll in progress, started by a handler that has not returned yet, is
\* past the second provider's decision to refresh
CodexPolled ==
    /\ app.callback # "none"
    /\ \/ "codex" \in produced
       \/ cur = "codex" /\ pc \in {"fetch", "scan"}

\* C29: across consecutive polls of the second provider with a refresh token:
\* after a poll whose refresh succeeded, the auth file's last_refresh is the
\* time of that refresh, and every later poll within the following 8 days
\* issues no refresh POST; after a poll whose refresh failed, the next poll
\* issues the refresh POST again.
C29_RefreshCadence ==
    /\ (app.callback = "none" /\ app.last_post.t = "post") =>
          (~RefreshFailed(app.last_post.resp) =>
               Get(codexFile.data, "last_refresh", JNull) = Iso(app.last_post.at, TRUE, 0))
    /\ (CodexPolled /\ app.last_post.t = "post") =>
          IF RefreshFailed(app.last_post.resp)
          THEN PostNow
          ELSE now - app.last_post.at <= EightDays => ~PostNow

\* the pieces a path is written with
PathPieces == {"/", "/backend-api", "/v1", "/wham/usage", "/api/codex/usage"}

IsHostPiece(piece) == piece \notin PathPieces

\* the host of a URL: what stands between the scheme and the path
Host(url) == SelectSeq(Tail(url), IsHostPiece)

DefaultHosts == { <<"chatgpt.com">>, <<"chat.openai.com">> }

\* C28: for the second provider, the usage path appended to the resolved base
\* URL is '/wham/usage' exactly when the resolved base targets the default
\* host (chatgpt.com or chat.openai.com), and '/api/codex/usage' exactly when
\* an override in the config file points the base at another host.
C28_UsagePathByHost ==
    impl = "monitor" =>
        \A i \in UsageCalls("codex") :
            LET url == net["codex"][i].url
                base_url == SubSeq(url, 1, Len(url) - 1)
                usage_path == url[Len(url)]
            IN  /\ usage_path \in {"/wham/usage", "/api/codex/usage"}
                /\ usage_path = "/wham/usage" <=> Host(base_url) \in DefaultHosts

====
